---- MODULE Spec2Model ----
(***************************************************************************)
(* Model of the user-account subsystem of radovskyb/services.              *)
(*                                                                         *)
(* The in-memory repository (user/datastore/mock.go) keeps three Go maps   *)
(* whose values are *user.User pointers.  A record the calling code still  *)
(* holds a pointer to lives in a heap cell, and a map entry for it is that *)
(* pointer: what the caller writes through its pointer is what the         *)
(* repository reads.  A record only the repository can reach can never     *)
(* change again (the repository writes to no record but the one passed to  *)
(* Create), so a map entry for it holds the record's value.                *)
(***************************************************************************)
EXTENDS Integers, FiniteSets, Sequences, TLC

VARIABLES
    heap,       \* cell -> user.User: the records the caller has a pointer to
    users,      \* mockRepo.users: id -> entry
    emails,     \* mockRepo.emails: email -> entry
    usernames,  \* mockRepo.usernames: username -> entry
    idCnt,      \* mockRepo.idCnt
    closed,     \* TRUE when Close has set the three maps to nil
    caller,     \* the caller's pointer variables: variable -> cell
    origin,     \* where the pointer in a caller's variable comes from
    edits,      \* how often the caller has written to a record it passed to Create
    last,       \* the call made last and the error it returned
    mu,         \* mockRepo.mu: the goroutine that holds the mutex, 0 when free
    calls,      \* goroutine -> the call of the repository it is executing
    rows,       \* the users table of the SQL backend: id -> row
    autoInc,    \* the AUTO_INCREMENT counter of the users table
    sqlLast,    \* what the SQL-backed repository returned for the last call
    values,     \* client -> the Values of its "user_session" session
    resp,       \* what the session or the HTTP handler answered last
    account     \* history: client -> the id of the account its session
                \* authenticated as with UserLogin, 0 for none

\* The in-memory repository and its caller,
repoVars == <<heap, users, emails, usernames, idCnt, closed, caller, origin,
              edits, last>>

\* the goroutines calling it concurrently,
concVars == <<mu, calls>>

\* the SQL-backed repository,
sqlVars == <<rows, autoInc, sqlLast>>

\* and the sessions of the clients of the HTTP handlers.
webVars == <<values, resp, account>>

vars == <<repoVars, concVars, sqlVars, webVars>>

(***************************************************************************)
(* Bounds of the model.                                                    *)
(***************************************************************************)
MaxId == 2
MaxHeld == 1
MaxEdits == 1
MaxClients == 2

Passwords == {"p1", "p2"}

Range(f) == {f[k] : k \in DOMAIN f}

Emails == {"e1", "e2"}
Usernames == {"n1", "n2"}
Ids == 1..MaxId
Vars == 1..MaxHeld
Cells == 1..MaxHeld
Clients == 1..MaxClients

(***************************************************************************)
(* Errors of the datastore package.                                        *)
(***************************************************************************)
Nil == "nil"
ErrDuplicateEmail == "ErrDuplicateEmail"
ErrDuplicateUsername == "ErrDuplicateUsername"
ErrUserNotFound == "ErrUserNotFound"
ErrClosed == "database is closed"

(***************************************************************************)
(* user.User, Go maps and pointers.                                        *)
(***************************************************************************)
User(id, email, username, password) ==
    [Id |-> id, Email |-> email, Username |-> username, Password |-> password]

NoUser == User(0, "", "", "")

EmptyMap == [k \in {} |-> 0]

\* m[k] = v of a Go map
Put(m, k, v) == [x \in DOMAIN m \cup {k} |-> IF x = k THEN v ELSE m[x]]

\* delete(m, k) of a Go map: no effect when k is absent
Del(m, k) == [x \in DOMAIN m \ {k} |-> m[x]]

\* A map entry: the pointer to a record the caller holds too, in cell c,
Ptr(c) == [shared |-> TRUE, cell |-> c, rec |-> NoUser]

\* or a record that only the repository can reach.
Own(u) == [shared |-> FALSE, cell |-> 0, rec |-> u]

\* *p for a map entry p
At(p) == IF p.shared THEN heap[p.cell] ELSE p.rec

\* The map m once the caller holds pointers to the cells in held only: the
\* records in the other cells h has are from now on the repository's alone.
Settle(m, h, held) ==
    [k \in DOMAIN m |->
        IF m[k].shared /\ m[k].cell \notin held THEN Own(h[m[k].cell])
        ELSE m[k]]

Call(op, err) == [op |-> op, err |-> err]

\* What a call of the session, or a request to a handler, of the client
\* answers: the error and the value it returns, or the error and the status
\* code it writes.
Answer(op, client, err, ret) ==
    [op |-> op, client |-> client, err |-> err, ret |-> ret]

(***************************************************************************)
(* NewMockRepo                                                             *)
(***************************************************************************)
Init ==
    /\ heap = EmptyMap
    /\ users = EmptyMap
    /\ emails = EmptyMap
    /\ usernames = EmptyMap
    /\ idCnt = 0
    /\ closed = FALSE
    /\ caller = EmptyMap
    /\ origin = EmptyMap
    /\ edits = 0
    /\ last = Call("NewMockRepo", Nil)
    /\ mu = 0
    /\ calls = EmptyMap
    /\ rows = EmptyMap
    /\ autoInc = 0
    /\ sqlLast = [op |-> "NewMySQLRepo", err |-> Nil, u |-> NoUser]
    /\ values = [c \in Clients |-> EmptyMap]
    /\ resp = Answer("NewHandler", 0, Nil, 0)
    /\ account = [c \in Clients |-> 0]

(***************************************************************************)
(* The calling code: it builds records in its variables, changes fields of *)
(* the records it holds a pointer to, and lets pointers go.                *)
(***************************************************************************)
\* The lowest variable of the caller that holds no pointer.
FreeVar == CHOOSE v \in Vars \ DOMAIN caller :
               \A w \in Vars \ DOMAIN caller : v <= w

\* The cell of a newly allocated record.
FreeCell == CHOOSE c \in Cells \ DOMAIN heap :
                \A d \in Cells \ DOMAIN heap : c <= d

\* A write through the pointer in v; writes to a record that was passed to
\* a successful Create are counted.
Written(v) ==
    IF origin[v] = "created"
    THEN edits < MaxEdits /\ edits' = edits + 1
    ELSE UNCHANGED edits

NewUser(e, n, pw) ==
    /\ DOMAIN caller # Vars
    /\ heap' = Put(heap, FreeCell, User(0, e, n, pw))
    /\ caller' = Put(caller, FreeVar, FreeCell)
    /\ origin' = Put(origin, FreeVar, "new")
    /\ last' = Call("NewUser", Nil)
    /\ UNCHANGED <<users, emails, usernames, idCnt, closed, edits>>

SetEmail(v, e) ==
    /\ v \in DOMAIN caller
    /\ heap[caller[v]].Email # e
    /\ heap' = [heap EXCEPT ![caller[v]].Email = e]
    /\ last' = Call("SetField", Nil)
    /\ Written(v)
    /\ UNCHANGED <<users, emails, usernames, idCnt, closed, caller, origin>>

SetUsername(v, n) ==
    /\ v \in DOMAIN caller
    /\ heap[caller[v]].Username # n
    /\ heap' = [heap EXCEPT ![caller[v]].Username = n]
    /\ last' = Call("SetField", Nil)
    /\ Written(v)
    /\ UNCHANGED <<users, emails, usernames, idCnt, closed, caller, origin>>

SetPassword(v, pw) ==
    /\ v \in DOMAIN caller
    /\ heap[caller[v]].Password # pw
    /\ heap' = [heap EXCEPT ![caller[v]].Password = pw]
    /\ last' = Call("SetField", Nil)
    /\ Written(v)
    /\ UNCHANGED <<users, emails, usernames, idCnt, closed, caller, origin>>

Drop(v) ==
    /\ v \in DOMAIN caller
    /\ caller' = Del(caller, v)
    /\ heap' = [c \in Range(caller') |-> heap[c]]
    /\ users' = Settle(users, heap, Range(caller'))
    /\ emails' = Settle(emails, heap, Range(caller'))
    /\ usernames' = Settle(usernames, heap, Range(caller'))
    /\ origin' = Del(origin, v)
    /\ last' = Call("Drop", Nil)
    /\ UNCHANGED <<idCnt, closed, edits>>

(***************************************************************************)
(* mockRepo.Close                                                          *)
(***************************************************************************)
Close ==
    /\ users' = EmptyMap
    /\ emails' = EmptyMap
    /\ usernames' = EmptyMap
    /\ closed' = TRUE
    /\ last' = Call("Close", Nil)
    /\ UNCHANGED <<heap, idCnt, caller, origin, edits>>

(***************************************************************************)
(* mockRepo.Create                                                         *)
(***************************************************************************)
\* The error Create returns for the record u in the current state.
CreateErr(u) ==
    IF closed THEN ErrClosed
    ELSE IF u.Email \in DOMAIN emails THEN ErrDuplicateEmail
    ELSE IF u.Username \in DOMAIN usernames THEN ErrDuplicateUsername
    ELSE Nil

\* Create as it would be if the id were taken after the checks for
\* duplicates.
CreateIdOnSuccess(v, max) ==
    /\ v \in DOMAIN caller
    /\ closed \/ idCnt < max
    /\ LET p == caller[v]
           u == heap[p]
       IN  /\ idCnt' = IF CreateErr(u) = Nil THEN idCnt + 1 ELSE idCnt
           /\ last' = Call("Create", CreateErr(u))
           /\ IF CreateErr(u) = Nil
                THEN /\ heap' = [heap EXCEPT ![p].Id = idCnt']
                     /\ users' = Put(users, idCnt', Ptr(p))
                     /\ emails' = Put(emails, u.Email, Ptr(p))
                     /\ usernames' = Put(usernames, u.Username, Ptr(p))
                     /\ origin' = [origin EXCEPT ![v] = "created"]
                ELSE UNCHANGED <<heap, users, emails, usernames, origin>>
    /\ UNCHANGED <<closed, caller, edits>>

\* Create while the repository has given out fewer than max ids.
CreateWithin(v, max) ==
    /\ v \in DOMAIN caller
    /\ closed \/ idCnt < max
    /\ LET p == caller[v]
           u == heap[p]
       IN  /\ idCnt' = IF closed THEN idCnt ELSE idCnt + 1
           /\ last' = Call("Create", CreateErr(u))
           /\ IF CreateErr(u) = Nil
                THEN /\ heap' = [heap EXCEPT ![p].Id = idCnt']
                     /\ users' = Put(users, idCnt', Ptr(p))
                     /\ emails' = Put(emails, u.Email, Ptr(p))
                     /\ usernames' = Put(usernames, u.Username, Ptr(p))
                     /\ origin' = [origin EXCEPT ![v] = "created"]
                ELSE UNCHANGED <<heap, users, emails, usernames, origin>>
    /\ UNCHANGED <<closed, caller, edits>>

\* Create as it would be if it stored a copy taken before the id is set.
CreateCopyBeforeId(v) ==
    /\ v \in DOMAIN caller
    /\ closed \/ idCnt < MaxId
    /\ LET p == caller[v]
           u == heap[p]
       IN  /\ idCnt' = IF closed THEN idCnt ELSE idCnt + 1
           /\ last' = Call("Create", CreateErr(u))
           /\ IF CreateErr(u) = Nil
                THEN /\ heap' = [heap EXCEPT ![p].Id = idCnt']
                     /\ users' = Put(users, idCnt', Own(u))
                     /\ emails' = Put(emails, u.Email, Own(u))
                     /\ usernames' = Put(usernames, u.Username, Own(u))
                     /\ origin' = [origin EXCEPT ![v] = "created"]
                ELSE UNCHANGED <<heap, users, emails, usernames, origin>>
    /\ UNCHANGED <<closed, caller, edits>>

\* Create as it would be if the id were len(s.users) + 1.
CreateIdFromLen(v) ==
    /\ v \in DOMAIN caller
    /\ closed \/ idCnt < MaxId
    /\ LET p == caller[v]
           u == heap[p]
       IN  /\ idCnt' = IF closed THEN idCnt ELSE Cardinality(DOMAIN users) + 1
           /\ last' = Call("Create", CreateErr(u))
           /\ IF CreateErr(u) = Nil
                THEN /\ heap' = [heap EXCEPT ![p].Id = idCnt']
                     /\ users' = Put(users, idCnt', Ptr(p))
                     /\ emails' = Put(emails, u.Email, Ptr(p))
                     /\ usernames' = Put(usernames, u.Username, Ptr(p))
                     /\ origin' = [origin EXCEPT ![v] = "created"]
                ELSE UNCHANGED <<heap, users, emails, usernames, origin>>
    /\ UNCHANGED <<closed, caller, edits>>

\* Create as it would be if the email were indexed before the username is
\* checked.
CreateIndexesFirst(v) ==
    /\ v \in DOMAIN caller
    /\ closed \/ idCnt < MaxId
    /\ LET p == caller[v]
           u == heap[p]
       IN  /\ idCnt' = IF closed THEN idCnt ELSE idCnt + 1
           /\ last' = Call("Create", CreateErr(u))
           /\ IF CreateErr(u) = Nil
                THEN /\ heap' = [heap EXCEPT ![p].Id = idCnt']
                     /\ users' = Put(users, idCnt', Ptr(p))
                     /\ emails' = Put(emails, u.Email, Ptr(p))
                     /\ usernames' = Put(usernames, u.Username, Ptr(p))
                     /\ origin' = [origin EXCEPT ![v] = "created"]
                ELSE /\ emails' = IF CreateErr(u) = ErrDuplicateUsername
                                  THEN Put(emails, u.Email, Ptr(p))
                                  ELSE emails
                     /\ UNCHANGED <<heap, users, usernames, origin>>
    /\ UNCHANGED <<closed, caller, edits>>

Create(v) == CreateWithin(v, MaxId)

(***************************************************************************)
(* mockRepo.Get, GetByEmail, GetByUsername                                 *)
(***************************************************************************)
Found(u) == [err |-> Nil, u |-> u]
NotFound == [err |-> ErrUserNotFound, u |-> NoUser]

\* What a lookup in the map m under key k returns.
Lookup(m, k) == IF k \in DOMAIN m THEN Found(At(m[k])) ELSE NotFound

GetRes(id) == Lookup(users, id)
GetByEmailRes(e) == Lookup(emails, e)
GetByUsernameRes(n) == Lookup(usernames, n)

\* A lookup as it would be if it returned the stored pointer itself.
ReturnStored(op, m, k) ==
    /\ last' = Call(op, Lookup(m, k).err)
    /\ IF k \in DOMAIN m
         THEN /\ DOMAIN caller # Vars
              /\ origin' = Put(origin, FreeVar, "got")
              /\ IF m[k].shared
                   THEN /\ caller' = Put(caller, FreeVar, m[k].cell)
                        /\ UNCHANGED <<heap, users, emails, usernames>>
                   ELSE LET Share(mm) ==
                                [x \in DOMAIN mm |->
                                    IF mm[x] = m[k] THEN Ptr(FreeCell)
                                    ELSE mm[x]]
                        IN  /\ heap' = Put(heap, FreeCell, m[k].rec)
                            /\ caller' = Put(caller, FreeVar, FreeCell)
                            /\ users' = Share(users)
                            /\ emails' = Share(emails)
                            /\ usernames' = Share(usernames)
         ELSE UNCHANGED <<heap, users, emails, usernames, caller, origin>>
    /\ UNCHANGED <<idCnt, closed, edits>>

\* A lookup as a step: a found record is copied into a new record and the
\* caller receives the pointer to the copy in a variable.
Return(op, m, k) ==
    /\ last' = Call(op, Lookup(m, k).err)
    /\ IF k \in DOMAIN m
         THEN /\ DOMAIN caller # Vars
              /\ heap' = Put(heap, FreeCell, At(m[k]))
              /\ caller' = Put(caller, FreeVar, FreeCell)
              /\ origin' = Put(origin, FreeVar, "got")
         ELSE UNCHANGED <<heap, caller, origin>>
    /\ UNCHANGED <<users, emails, usernames, idCnt, closed, edits>>

Get(id) == Return("Get", users, id)
GetByEmail(e) == Return("GetByEmail", emails, e)
GetByUsername(n) == Return("GetByUsername", usernames, n)

(***************************************************************************)
(* mockRepo.Update                                                         *)
(***************************************************************************)
\* The error Update returns for the record u in the current state.
UpdateErr(u) ==
    IF u.Id \notin DOMAIN users THEN ErrUserNotFound
    ELSE IF /\ u.Email \in DOMAIN emails
            /\ At(emails[u.Email]).Id # At(users[u.Id]).Id
         THEN ErrDuplicateEmail
    ELSE IF /\ u.Username \in DOMAIN usernames
            /\ At(usernames[u.Username]).Id # At(users[u.Id]).Id
         THEN ErrDuplicateUsername
    ELSE Nil

\* Update as it would be if the previous keys stayed in the indices.
UpdateKeepsOldKeys(u) ==
    /\ last' = Call("Update", UpdateErr(u))
    /\ IF UpdateErr(u) = Nil
         THEN LET updated == Own(User(u.Id, u.Email, u.Username, u.Password))
              IN  /\ users' = Put(users, u.Id, updated)
                  /\ emails' = Put(emails, u.Email, updated)
                  /\ usernames' = Put(usernames, u.Username, updated)
         ELSE UNCHANGED <<users, emails, usernames>>
    /\ UNCHANGED <<heap, idCnt, closed, caller, origin, edits>>

Update(u) ==
    /\ last' = Call("Update", UpdateErr(u))
    /\ IF UpdateErr(u) = Nil
         THEN LET old == At(users[u.Id])
                  updated == Own(User(u.Id, u.Email, u.Username, u.Password))
              IN  /\ users' = Put(users, u.Id, updated)
                  /\ emails' = Put(Del(emails, old.Email), u.Email, updated)
                  /\ usernames' =
                         Put(Del(usernames, old.Username), u.Username, updated)
         ELSE UNCHANGED <<users, emails, usernames>>
    /\ UNCHANGED <<heap, idCnt, closed, caller, origin, edits>>

(***************************************************************************)
(* mockRepo.Delete                                                         *)
(***************************************************************************)
DeleteErr(id) == IF id \in DOMAIN users THEN Nil ELSE ErrUserNotFound

\* Delete as it would be if the username stayed in its index.
DeleteKeepsUsername(id) ==
    /\ last' = Call("Delete", DeleteErr(id))
    /\ IF DeleteErr(id) = Nil
         THEN LET u == At(users[id])
              IN  /\ users' = Del(users, id)
                  /\ emails' = Del(emails, u.Email)
                  /\ UNCHANGED usernames
         ELSE UNCHANGED <<users, emails, usernames>>
    /\ UNCHANGED <<heap, idCnt, closed, caller, origin, edits>>

Delete(id) ==
    /\ last' = Call("Delete", DeleteErr(id))
    /\ IF DeleteErr(id) = Nil
         THEN LET u == At(users[id])
              IN  /\ users' = Del(users, id)
                  /\ emails' = Del(emails, u.Email)
                  /\ usernames' = Del(usernames, u.Username)
         ELSE UNCHANGED <<users, emails, usernames>>
    /\ UNCHANGED <<heap, idCnt, closed, caller, origin, edits>>

(***************************************************************************)
(* The repository used by one caller.                                      *)
(***************************************************************************)
UserArgs == {User(id, e, n, pw) : id \in Ids, e \in Emails, n \in Usernames,
                                  pw \in Passwords}

Next ==
    \/ /\ \E e \in Emails, n \in Usernames, pw \in Passwords : NewUser(e, n, pw)
       /\ UNCHANGED <<concVars, sqlVars, webVars>>
    \/ /\ \E v \in Vars, e \in Emails : SetEmail(v, e)
       /\ UNCHANGED <<concVars, sqlVars, webVars>>
    \/ /\ \E v \in Vars, n \in Usernames : SetUsername(v, n)
       /\ UNCHANGED <<concVars, sqlVars, webVars>>
    \/ /\ \E v \in Vars, pw \in Passwords : SetPassword(v, pw)
       /\ UNCHANGED <<concVars, sqlVars, webVars>>
    \/ /\ \E v \in Vars : Drop(v)
       /\ UNCHANGED <<concVars, sqlVars, webVars>>
    \/ /\ Close
       /\ UNCHANGED <<concVars, sqlVars, webVars>>
    \/ /\ \E v \in Vars : Create(v)
       /\ UNCHANGED <<concVars, sqlVars, webVars>>
    \/ /\ \E id \in Ids : Get(id)
       /\ UNCHANGED <<concVars, sqlVars, webVars>>
    \/ /\ \E e \in Emails : GetByEmail(e)
       /\ UNCHANGED <<concVars, sqlVars, webVars>>
    \/ /\ \E n \in Usernames : GetByUsername(n)
       /\ UNCHANGED <<concVars, sqlVars, webVars>>
    \/ /\ \E u \in UserArgs : Update(u)
       /\ UNCHANGED <<concVars, sqlVars, webVars>>
    \/ /\ \E id \in Ids : Delete(id)
       /\ UNCHANGED <<concVars, sqlVars, webVars>>

Spec == Init /\ [][Next]_vars

(***************************************************************************)
(* What a caller can observe of the repository.                            *)
(***************************************************************************)
\* The results of every lookup.
Gets == [id \in Ids |-> GetRes(id)]
ByEmail == [e \in Emails |-> GetByEmailRes(e)]
ByUsername == [n \in Usernames |-> GetByUsernameRes(n)]
AllLookups == <<Gets, ByEmail, ByUsername>>

\* The record stored under the id.
Stored(id) == At(users[id])

EmailHeld(e) == \E id \in DOMAIN users : Stored(id).Email = e
UsernameHeld(n) == \E id \in DOMAIN users : Stored(id).Username = n

\* The step is a call of Create with the record in the caller's variable v,
CreateOf(v) == last'.op = "Create" /\ Create(v)

\* a call of Update with the record u,
UpdateOf(u) == last'.op = "Update" /\ Update(u)

\* a call of Delete with the id.
DeleteOf(id) == last'.op = "Delete" /\ Delete(id)

\* The step is a write of the caller through a pointer of the given origin.
WriteThrough(o) ==
    /\ last'.op = "SetField"
    /\ \E v \in DOMAIN caller :
           origin[v] = o /\ heap'[caller[v]] # heap[caller[v]]

(***************************************************************************)
(* The repository contract.                                                *)
(***************************************************************************)
\* C1: no two stored users have the same email and no two stored users have
\* the same username.
UniqueKeys ==
    \A i, j \in DOMAIN users :
        i # j => /\ Stored(i).Email # Stored(j).Email
                 /\ Stored(i).Username # Stored(j).Username

\* C2: on the open repository Create returns DuplicateEmail when a stored
\* user holds the email, else DuplicateUsername when a stored user holds the
\* username, else it succeeds.
CreateOutcome ==
    [][\A v \in DOMAIN caller :
          CreateOf(v) /\ ~closed =>
              last'.err = IF EmailHeld(heap[caller[v]].Email)
                              THEN ErrDuplicateEmail
                          ELSE IF UsernameHeld(heap[caller[v]].Username)
                              THEN ErrDuplicateUsername
                          ELSE Nil]_vars

\* C3: Update returns NotFound when no record has the id, else DuplicateEmail
\* when a record with another id holds the new email, else DuplicateUsername
\* when a record with another id holds the new username, else it succeeds.
UpdateOutcome ==
    [][\A u \in UserArgs :
          UpdateOf(u) =>
              last'.err =
                  IF u.Id \notin DOMAIN users THEN ErrUserNotFound
                  ELSE IF \E id \in DOMAIN users \ {u.Id} :
                              Stored(id).Email = u.Email
                      THEN ErrDuplicateEmail
                  ELSE IF \E id \in DOMAIN users \ {u.Id} :
                              Stored(id).Username = u.Username
                      THEN ErrDuplicateUsername
                  ELSE Nil]_vars

\* C4: right after Create accepts u, Get of the assigned id returns u's
\* email, username and password under the assigned id.
CreateThenGet ==
    [][\A v \in DOMAIN caller :
          CreateOf(v) /\ last'.err = Nil =>
              /\ heap'[caller[v]].Id \in Ids
              /\ Gets'[heap'[caller[v]].Id] =
                     Found([heap[caller[v]] EXCEPT !.Id = heap'[caller[v]].Id])]_vars

CreateThenGetWitness ==
    /\ last.op = "Create" /\ last.err = Nil
    /\ idCnt >= 2
    /\ \E v \in DOMAIN caller :
           /\ origin[v] = "created"
           /\ heap[caller[v]].Id = idCnt
           /\ GetRes(idCnt) = Found(heap[caller[v]])

\* C5: idCnt never decreases and a successful Create assigns idCnt + 1, an
\* id above every id assigned before, deleted or not.
IdsGrow ==
    [][/\ idCnt' >= idCnt
       /\ \A id \in DOMAIN users : id <= idCnt
       /\ \A v \in DOMAIN caller :
              CreateOf(v) /\ last'.err = Nil =>
                  /\ heap'[caller[v]].Id = idCnt + 1
                  /\ idCnt' = idCnt + 1
                  /\ DOMAIN users' = DOMAIN users \cup {idCnt + 1}]_vars

IdsGrowWitness ==
    /\ last.op = "Create" /\ last.err = Nil
    /\ idCnt = MaxId
    /\ DOMAIN users = {idCnt}

\* C6: a Create that fails changes the result of no lookup.
FailedCreateInvisible ==
    [][\A v \in DOMAIN caller :
          CreateOf(v) /\ last'.err # Nil => AllLookups' = AllLookups]_vars

FailedCreateInvisibleWitness ==
    /\ last.op = "Create" /\ last.err = ErrDuplicateUsername
    /\ Cardinality(DOMAIN users) = 1

\* C7: a write of the caller to a record returned by a lookup changes the
\* result of no lookup.
LookupReturnsCopy == [][WriteThrough("got") => AllLookups' = AllLookups]_vars

LookupReturnsCopyWitness ==
    /\ last.op = "SetField"
    /\ \E v \in DOMAIN caller :
           /\ origin[v] = "got"
           /\ heap[caller[v]].Id \in DOMAIN users
           /\ Stored(heap[caller[v]].Id).Id = heap[caller[v]].Id
           /\ Stored(heap[caller[v]].Id) # heap[caller[v]]

\* C8: a write of the caller to a record it passed to Create changes the
\* result of no lookup.
CreateKeepsNoAlias ==
    [][WriteThrough("created") => AllLookups' = AllLookups]_vars

\* C9: after a successful Update(u) the three lookups of u's id, email and
\* username return u, the previous email and username no longer resolve when
\* they changed, and the records under the other ids are as before.
UpdateReplaces ==
    [][\A u \in UserArgs :
          last'.err = Nil /\ UpdateOf(u) =>
              /\ Gets'[u.Id] = Found(u)
              /\ ByEmail'[u.Email] = Found(u)
              /\ ByUsername'[u.Username] = Found(u)
              /\ Stored(u.Id).Email # u.Email =>
                     ByEmail'[Stored(u.Id).Email] = NotFound
              /\ Stored(u.Id).Username # u.Username =>
                     ByUsername'[Stored(u.Id).Username] = NotFound
              /\ \A id \in Ids \ {u.Id} : Gets'[id] = Gets[id]]_vars

UpdateReplacesWitness ==
    /\ last.op = "Update" /\ last.err = Nil
    /\ Cardinality(DOMAIN users) = 2
    /\ \E id \in DOMAIN users : ~users[id].shared /\ Stored(id).Password = "p2"

\* C10: after a successful Delete the id and the deleted record's email and
\* username no longer resolve, and both are free: Create with them succeeds
\* and neither Create nor Update of another record finds them taken.
DeleteFrees ==
    [][\A id \in Ids :
          last'.err = Nil /\ DeleteOf(id) =>
              /\ Gets'[id] = NotFound
              /\ ByEmail'[Stored(id).Email] = NotFound
              /\ ByUsername'[Stored(id).Username] = NotFound
              /\ \A u \in UserArgs :
                     /\ (u.Email = Stored(id).Email
                            /\ u.Username = Stored(id).Username)
                        => CreateErr(u)' = Nil
                     /\ u.Email = Stored(id).Email
                        => /\ CreateErr(u)' # ErrDuplicateEmail
                           /\ UpdateErr(u)' # ErrDuplicateEmail
                     /\ (u.Username = Stored(id).Username
                            /\ CreateErr(u)' # ErrDuplicateEmail)
                        => CreateErr(u)' # ErrDuplicateUsername
                     /\ (u.Username = Stored(id).Username
                            /\ UpdateErr(u)' # ErrDuplicateEmail)
                        => UpdateErr(u)' # ErrDuplicateUsername]_vars

DeleteFreesWitness ==
    /\ last.op = "Delete" /\ last.err = Nil
    /\ DOMAIN users # {}

(***************************************************************************)
(* Goroutines calling the in-memory repository concurrently.  A call is    *)
(* executed statement by statement; s.mu.Lock() waits until the mutex is   *)
(* free.  The record a goroutine passes to Create is in the heap cell of   *)
(* the goroutine's number until the goroutine is done with the call.       *)
(***************************************************************************)
MaxProcs == 2

Procs == 1..MaxProcs

\* The records behind the entries of a map.
View(m) == [k \in DOMAIN m |-> At(m[k])]

\* The contents of the repository.
Contents == [users |-> View(users), emails |-> View(emails),
             usernames |-> View(usernames), idCnt |-> idCnt]

NoContents == [users |-> EmptyMap, emails |-> EmptyMap, usernames |-> EmptyMap,
               idCnt |-> 0]

\* The call a goroutine starts: op with the argument u; old is the entry the
\* call finds, ret the record it returns, pre the contents of the repository
\* when the goroutine got the mutex.
NewCall(op, u) == [op |-> op, pc |-> "lock", u |-> u, old |-> Own(NoUser),
                   err |-> Nil, ret |-> NoUser, pre |-> NoContents]

Goto(p, pc) == calls' = [calls EXCEPT ![p].pc = pc]

\* return err: the deferred s.mu.Unlock() is what remains.
Fail(p, err) == calls' = [calls EXCEPT ![p].pc = "unlock", ![p].err = err]

\* The Creates that have not yet taken an id.
Pending == {q \in DOMAIN calls :
               calls[q].op = "Create" /\ calls[q].pc \in {"lock", "closed", "inc"}}

\* go s.Create(&user.User{...}), go s.Get(id), go s.Update(&user.User{...}),
\* go s.Delete(id)
Invoke(p, op, u) ==
    /\ p \notin DOMAIN calls
    /\ op = "Create" => u.Id = 0 /\ idCnt + Cardinality(Pending) < MaxId
    /\ op \in {"Get", "Delete"} => u = User(u.Id, "", "", "")
    /\ calls' = Put(calls, p, NewCall(op, u))
    /\ heap' = IF op = "Create" THEN Put(heap, p, u) ELSE heap
    /\ UNCHANGED <<users, emails, usernames, idCnt, closed, caller, origin,
                   edits, last, mu>>

\* The first statement of the call after s.mu.Lock().
First(op) == IF op = "Create" THEN "closed" ELSE "find"

\* s.mu.Lock() as it would be if it did not wait for the mutex.
LockNoWait(p) ==
    /\ p \in DOMAIN calls
    /\ calls[p].pc = "lock"
    /\ mu' = p
    /\ calls' = [calls EXCEPT ![p].pc = First(calls[p].op), ![p].pre = Contents]
    /\ UNCHANGED repoVars

\* s.mu.Lock()
Lock(p) ==
    /\ p \in DOMAIN calls
    /\ calls[p].pc = "lock"
    /\ mu = 0
    /\ mu' = p
    /\ calls' = [calls EXCEPT ![p].pc = First(calls[p].op), ![p].pre = Contents]
    /\ UNCHANGED repoVars

\* The statements of mockRepo.Create between Lock and Unlock, one a step.
CreateStep(p) ==
    /\ p \in DOMAIN calls
    /\ calls[p].op = "Create"
    /\ \/ /\ calls[p].pc = "closed"
          /\ IF closed THEN Fail(p, ErrClosed) ELSE Goto(p, "inc")
          /\ UNCHANGED <<heap, users, emails, usernames, idCnt>>
       \/ /\ calls[p].pc = "inc"
          /\ idCnt' = idCnt + 1
          /\ Goto(p, "email")
          /\ UNCHANGED <<heap, users, emails, usernames>>
       \/ /\ calls[p].pc = "email"
          /\ IF heap[p].Email \in DOMAIN emails
               THEN Fail(p, ErrDuplicateEmail)
               ELSE Goto(p, "username")
          /\ UNCHANGED <<heap, users, emails, usernames, idCnt>>
       \/ /\ calls[p].pc = "username"
          /\ IF heap[p].Username \in DOMAIN usernames
               THEN Fail(p, ErrDuplicateUsername)
               ELSE Goto(p, "id")
          /\ UNCHANGED <<heap, users, emails, usernames, idCnt>>
       \/ /\ calls[p].pc = "id"
          /\ heap' = [heap EXCEPT ![p].Id = idCnt]
          /\ Goto(p, "users")
          /\ UNCHANGED <<users, emails, usernames, idCnt>>
       \/ /\ calls[p].pc = "users"
          /\ users' = Put(users, idCnt, Ptr(p))
          /\ Goto(p, "emails")
          /\ UNCHANGED <<heap, emails, usernames, idCnt>>
       \/ /\ calls[p].pc = "emails"
          /\ emails' = Put(emails, heap[p].Email, Ptr(p))
          /\ Goto(p, "usernames")
          /\ UNCHANGED <<heap, users, usernames, idCnt>>
       \/ /\ calls[p].pc = "usernames"
          /\ usernames' = Put(usernames, heap[p].Username, Ptr(p))
          /\ Goto(p, "unlock")
          /\ UNCHANGED <<heap, users, emails, idCnt>>
    /\ UNCHANGED <<closed, caller, origin, edits, last, mu>>

\* The statements of mockRepo.Get.
GetStep(p) ==
    /\ p \in DOMAIN calls
    /\ calls[p].op = "Get"
    /\ \/ /\ calls[p].pc = "find"
          /\ IF calls[p].u.Id \in DOMAIN users
               THEN calls' = [calls EXCEPT ![p].pc = "copy",
                                           ![p].old = users[calls[p].u.Id]]
               ELSE Fail(p, ErrUserNotFound)
       \/ /\ calls[p].pc = "copy"
          /\ calls' = [calls EXCEPT ![p].pc = "unlock",
                                    ![p].ret = At(calls[p].old)]
    /\ UNCHANGED <<repoVars, mu>>

\* The statements of mockRepo.Update.
UpdateStep(p) ==
    /\ p \in DOMAIN calls
    /\ calls[p].op = "Update"
    /\ LET u == calls[p].u
           old == At(calls[p].old)
           updated == Own(User(u.Id, u.Email, u.Username, u.Password))
       IN  \/ /\ calls[p].pc = "find"
              /\ IF u.Id \in DOMAIN users
                   THEN calls' = [calls EXCEPT ![p].pc = "email",
                                               ![p].old = users[u.Id]]
                   ELSE Fail(p, ErrUserNotFound)
              /\ UNCHANGED <<users, emails, usernames>>
           \/ /\ calls[p].pc = "email"
              /\ IF u.Email \in DOMAIN emails /\ At(emails[u.Email]).Id # old.Id
                   THEN Fail(p, ErrDuplicateEmail)
                   ELSE Goto(p, "username")
              /\ UNCHANGED <<users, emails, usernames>>
           \/ /\ calls[p].pc = "username"
              /\ IF /\ u.Username \in DOMAIN usernames
                    /\ At(usernames[u.Username]).Id # old.Id
                   THEN Fail(p, ErrDuplicateUsername)
                   ELSE Goto(p, "users")
              /\ UNCHANGED <<users, emails, usernames>>
           \/ /\ calls[p].pc = "users"
              /\ users' = Put(users, u.Id, updated)
              /\ Goto(p, "delEmail")
              /\ UNCHANGED <<emails, usernames>>
           \/ /\ calls[p].pc = "delEmail"
              /\ emails' = Del(emails, old.Email)
              /\ Goto(p, "emails")
              /\ UNCHANGED <<users, usernames>>
           \/ /\ calls[p].pc = "emails"
              /\ emails' = Put(emails, u.Email, updated)
              /\ Goto(p, "delUsername")
              /\ UNCHANGED <<users, usernames>>
           \/ /\ calls[p].pc = "delUsername"
              /\ usernames' = Del(usernames, old.Username)
              /\ Goto(p, "usernames")
              /\ UNCHANGED <<users, emails>>
           \/ /\ calls[p].pc = "usernames"
              /\ usernames' = Put(usernames, u.Username, updated)
              /\ Goto(p, "unlock")
              /\ UNCHANGED <<users, emails>>
    /\ UNCHANGED <<heap, idCnt, closed, caller, origin, edits, last, mu>>

\* The statements of mockRepo.Delete.
DeleteStep(p) ==
    /\ p \in DOMAIN calls
    /\ calls[p].op = "Delete"
    /\ LET old == At(calls[p].old)
       IN  \/ /\ calls[p].pc = "find"
              /\ IF calls[p].u.Id \in DOMAIN users
                   THEN calls' = [calls EXCEPT ![p].pc = "users",
                                               ![p].old = users[calls[p].u.Id]]
                   ELSE Fail(p, ErrUserNotFound)
              /\ UNCHANGED <<users, emails, usernames>>
           \/ /\ calls[p].pc = "users"
              /\ users' = Del(users, calls[p].u.Id)
              /\ Goto(p, "emails")
              /\ UNCHANGED <<emails, usernames>>
           \/ /\ calls[p].pc = "emails"
              /\ emails' = Del(emails, old.Email)
              /\ Goto(p, "usernames")
              /\ UNCHANGED <<users, usernames>>
           \/ /\ calls[p].pc = "usernames"
              /\ usernames' = Del(usernames, old.Username)
              /\ Goto(p, "unlock")
              /\ UNCHANGED <<users, emails>>
    /\ UNCHANGED <<heap, idCnt, closed, caller, origin, edits, last, mu>>

\* The deferred s.mu.Unlock(): the call returns.
Unlock(p) ==
    /\ p \in DOMAIN calls
    /\ calls[p].pc = "unlock"
    /\ mu' = 0
    /\ calls' = [calls EXCEPT ![p].pc = "done", ![p].pre = NoContents]
    /\ UNCHANGED repoVars

\* The goroutine has used the result and ends; the record it passed to
\* Create is from now on the repository's alone.
Finish(p) ==
    /\ p \in DOMAIN calls
    /\ calls[p].pc = "done"
    /\ heap' = [c \in DOMAIN heap \ {p} |-> heap[c]]
    /\ users' = Settle(users, heap, DOMAIN heap')
    /\ emails' = Settle(emails, heap, DOMAIN heap')
    /\ usernames' = Settle(usernames, heap, DOMAIN heap')
    /\ calls' = [q \in DOMAIN calls \ {p} |->
                    [calls[q] EXCEPT
                        !.old = IF @.shared /\ @.cell = p
                                THEN Own(heap[p]) ELSE @]]
    /\ UNCHANGED <<idCnt, closed, caller, origin, edits, last, mu>>

\* The arguments of the concurrent calls.
ConcArgs(op) ==
    IF op = "Create"
      THEN {User(0, e, n, "p1") : e \in Emails, n \in Usernames}
    ELSE IF op = "Update"
      THEN {User(id, e, n, "p2") : id \in Ids, e \in Emails, n \in Usernames}
    ELSE {User(id, "", "", "") : id \in Ids}

ConcNext ==
    \/ /\ \E p \in Procs, op \in {"Create", "Get", "Update", "Delete"} :
              \E u \in ConcArgs(op) : Invoke(p, op, u)
       /\ UNCHANGED <<sqlVars, webVars>>
    \/ /\ \E p \in Procs : Lock(p)
       /\ UNCHANGED <<sqlVars, webVars>>
    \/ /\ \E p \in Procs : CreateStep(p)
       /\ UNCHANGED <<sqlVars, webVars>>
    \/ /\ \E p \in Procs : GetStep(p)
       /\ UNCHANGED <<sqlVars, webVars>>
    \/ /\ \E p \in Procs : UpdateStep(p)
       /\ UNCHANGED <<sqlVars, webVars>>
    \/ /\ \E p \in Procs : DeleteStep(p)
       /\ UNCHANGED <<sqlVars, webVars>>
    \/ /\ \E p \in Procs : Unlock(p)
       /\ UNCHANGED <<sqlVars, webVars>>
    \/ /\ \E p \in Procs : Finish(p)
       /\ UNCHANGED <<sqlVars, webVars>>

ConcSpec == Init /\ [][ConcNext]_vars

\* What the call f returns, and the contents it leaves, when it is executed
\* alone on a repository of the contents s.
Sequential(f, s) ==
    LET u == f.u
        id == s.idCnt + 1
        new == User(id, u.Email, u.Username, u.Password)
        old == s.users[u.Id]
        err == IF f.op = "Create"
                 THEN IF u.Email \in DOMAIN s.emails THEN ErrDuplicateEmail
                      ELSE IF u.Username \in DOMAIN s.usernames
                        THEN ErrDuplicateUsername
                      ELSE Nil
               ELSE IF u.Id \notin DOMAIN s.users THEN ErrUserNotFound
               ELSE IF f.op # "Update" THEN Nil
               ELSE IF u.Email \in DOMAIN s.emails /\ s.emails[u.Email].Id # u.Id
                 THEN ErrDuplicateEmail
               ELSE IF /\ u.Username \in DOMAIN s.usernames
                       /\ s.usernames[u.Username].Id # u.Id
                 THEN ErrDuplicateUsername
               ELSE Nil
    IN  [err |-> err,
         ret |-> IF f.op = "Get" /\ err = Nil THEN old ELSE NoUser,
         post |->
            IF f.op = "Create"
              THEN IF err = Nil
                     THEN [users |-> Put(s.users, id, new),
                           emails |-> Put(s.emails, u.Email, new),
                           usernames |-> Put(s.usernames, u.Username, new),
                           idCnt |-> id]
                     ELSE [s EXCEPT !.idCnt = id]
            ELSE IF err # Nil \/ f.op = "Get" THEN s
            ELSE IF f.op = "Update"
              THEN [users |-> Put(s.users, u.Id, u),
                    emails |-> Put(Del(s.emails, old.Email), u.Email, u),
                    usernames |->
                        Put(Del(s.usernames, old.Username), u.Username, u),
                    idCnt |-> s.idCnt]
            ELSE [users |-> Del(s.users, u.Id),
                  emails |-> Del(s.emails, old.Email),
                  usernames |-> Del(s.usernames, old.Username),
                  idCnt |-> s.idCnt]]

\* Two calls of Create that have both succeeded and whose records are both
\* stored, with the same email or the same username.
BothCreated(p, q) ==
    /\ p # q
    /\ calls[p].op = "Create" /\ calls[q].op = "Create"
    /\ calls[p].pc = "done" /\ calls[q].pc = "done"
    /\ calls[p].err = Nil /\ calls[q].err = Nil
    /\ heap[p].Id \in DOMAIN users /\ heap[q].Id \in DOMAIN users
    /\ \/ Stored(heap[p].Id).Email = Stored(heap[q].Id).Email
       \/ Stored(heap[p].Id).Username = Stored(heap[q].Id).Username

ErrWrongPassword == "ErrWrongPassword"
ErrNoRows == "sql: no rows in result set"
ErrNilResult == "panic: nil sql.Result"

\* What a call of the SQL-backed repository returns.
Reply(op, err, u) == [op |-> op, err |-> err, u |-> u]

\* SELECT id FROM users WHERE email = ? (username = ?): the rows found.
IdsByEmail(e) == {id \in DOMAIN rows : rows[id].Email = e}
IdsByUsername(n) == {id \in DOMAIN rows : rows[id].Username = n}

\* Scan(&id): id is assigned when a row is found and keeps its value if not.
Scan(found, id) == IF found = {} THEN id ELSE CHOOSE r \in found : TRUE

\* Error 1062: another row than the one with the id has the email or the
\* username of u.
DuplicateKey(u, id) ==
    (IdsByEmail(u.Email) \cup IdsByUsername(u.Username)) \ {id} # {}

\* mysqlRepo.checkDupes
checkDupes(u) ==
    LET id1 == Scan(IdsByEmail(u.Email), 0)
        id2 == Scan(IdsByUsername(u.Username), id1)
        err1 == IF IdsByEmail(u.Email) = {} THEN ErrNoRows ELSE Nil
        err2 == IF IdsByUsername(u.Username) = {} THEN ErrNoRows ELSE Nil
    IN  IF id1 # 0 /\ id1 # u.Id THEN ErrDuplicateEmail
        ELSE IF id2 # 0 /\ id2 # u.Id THEN ErrDuplicateUsername
        ELSE IF err1 = Nil THEN err2
        ELSE err1

\* mysqlRepo.Create
MysqlCreateErr(u) == IF DuplicateKey(u, 0) THEN checkDupes(u) ELSE Nil

MysqlCreate(u) ==
    /\ autoInc < MaxId
    /\ autoInc' = autoInc + 1
    /\ rows' = IF DuplicateKey(u, 0) THEN rows
               ELSE Put(rows, autoInc',
                        User(autoInc', u.Email, u.Username, u.Password))
    /\ sqlLast' = Reply("Create", MysqlCreateErr(u), NoUser)

\* mysqlRepo.Get, GetByEmail, GetByUsername: SELECT * FROM users WHERE ...
Select(op, found) ==
    IF found = {} THEN Reply(op, ErrUserNotFound, NoUser)
    ELSE Reply(op, Nil, rows[CHOOSE r \in found : TRUE])

MysqlGetRes(id) == Select("Get", {id} \cap DOMAIN rows)
MysqlGetByEmailRes(e) == Select("GetByEmail", IdsByEmail(e))
MysqlGetByUsernameRes(n) == Select("GetByUsername", IdsByUsername(n))

MysqlGet(id) == sqlLast' = MysqlGetRes(id) /\ UNCHANGED <<rows, autoInc>>
MysqlGetByEmail(e) ==
    sqlLast' = MysqlGetByEmailRes(e) /\ UNCHANGED <<rows, autoInc>>
MysqlGetByUsername(n) ==
    sqlLast' = MysqlGetByUsernameRes(n) /\ UNCHANGED <<rows, autoInc>>

\* mysqlRepo.Update: UPDATE users SET ... WHERE id = ?
Row(u) == User(u.Id, u.Email, u.Username, u.Password)

\* The rows the UPDATE changes: res.RowsAffected().
Affected(u) == IF u.Id \in DOMAIN rows /\ rows[u.Id] # Row(u) THEN 1 ELSE 0

MysqlUpdateErr(u) ==
    IF u.Id \in DOMAIN rows /\ DuplicateKey(u, u.Id)
      THEN IF checkDupes(u) # Nil THEN checkDupes(u) ELSE ErrNilResult
    ELSE IF Affected(u) # 1 THEN ErrUserNotFound
    ELSE Nil

MysqlUpdate(u) ==
    /\ rows' = IF u.Id \in DOMAIN rows /\ ~DuplicateKey(u, u.Id)
               THEN Put(rows, u.Id, Row(u)) ELSE rows
    /\ sqlLast' = Reply("Update", MysqlUpdateErr(u), NoUser)
    /\ UNCHANGED autoInc

\* mysqlRepo.Delete: DELETE FROM users WHERE id = ?
MysqlDeleteErr(id) == IF id \in DOMAIN rows THEN Nil ELSE ErrUserNotFound

MysqlDelete(id) ==
    /\ rows' = Del(rows, id)
    /\ sqlLast' = Reply("Delete", MysqlDeleteErr(id), NoUser)
    /\ UNCHANGED autoInc

\* mysqlRepo.Authenticate
MysqlAuthenticateRes(e, pass) ==
    LET r == Select("Authenticate", IdsByEmail(e))
    IN  IF r.err = ErrUserNotFound THEN r
        ELSE IF r.u.Password # pass
          THEN Reply("Authenticate", ErrWrongPassword, NoUser)
        ELSE r

\* Authenticate as it would be if it did not compare the passwords.
MysqlAuthenticateAnyPassword(e, pass) ==
    /\ sqlLast' = Select("Authenticate", IdsByEmail(e))
    /\ UNCHANGED <<rows, autoInc>>

MysqlAuthenticate(e, pass) ==
    /\ sqlLast' = MysqlAuthenticateRes(e, pass)
    /\ UNCHANGED <<rows, autoInc>>

\* The records passed to the SQL-backed repository: the id may be unset.
SqlArgs == {User(id, e, n, pw) : id \in 0..MaxId, e \in Emails,
                                 n \in Usernames, pw \in Passwords}

SqlNext ==
    \/ /\ \E u \in SqlArgs : MysqlCreate(u)
       /\ UNCHANGED <<repoVars, concVars, webVars>>
    \/ /\ \E id \in Ids : MysqlGet(id)
       /\ UNCHANGED <<repoVars, concVars, webVars>>
    \/ /\ \E e \in Emails : MysqlGetByEmail(e)
       /\ UNCHANGED <<repoVars, concVars, webVars>>
    \/ /\ \E n \in Usernames : MysqlGetByUsername(n)
       /\ UNCHANGED <<repoVars, concVars, webVars>>
    \/ /\ \E u \in SqlArgs : MysqlUpdate(u)
       /\ UNCHANGED <<repoVars, concVars, webVars>>
    \/ /\ \E id \in Ids : MysqlDelete(id)
       /\ UNCHANGED <<repoVars, concVars, webVars>>
    \/ /\ \E e \in Emails, pw \in Passwords : MysqlAuthenticate(e, pw)
       /\ UNCHANGED <<repoVars, concVars, webVars>>

SqlSpec == Init /\ [][SqlNext]_vars

\* C12: Authenticate of the SQL-backed repository returns the row with the
\* email when there is one and its password is the given one, WrongPassword
\* when there is one with another password, and NotFound when there is none.
AuthenticateOutcome ==
    [][\A e \in Emails, pw \in Passwords :
          sqlLast'.op = "Authenticate" /\ MysqlAuthenticate(e, pw) =>
              IF \E id \in DOMAIN rows : rows[id].Email = e
                THEN \E id \in DOMAIN rows :
                        /\ rows[id].Email = e
                        /\ IF rows[id].Password = pw
                             THEN sqlLast'.err = Nil /\ sqlLast'.u = rows[id]
                             ELSE sqlLast'.err = ErrWrongPassword
                ELSE sqlLast'.err = ErrUserNotFound]_vars

AuthenticateOutcomeWitness ==
    /\ sqlLast.op = "Authenticate" /\ sqlLast.err = Nil
    /\ sqlLast.u.Id = 2 /\ sqlLast.u.Password = "p2"
    /\ Cardinality(DOMAIN rows) = 2

\* C13: when Create of the SQL-backed repository has succeeded, the id in the
\* caller's record is the id of the row that holds the new record.
CreateReturnsId ==
    [][\A u \in SqlArgs :
          sqlLast'.op = "Create" /\ sqlLast'.err = Nil /\ MysqlCreate(u) =>
              /\ u.Id \in DOMAIN rows' \ DOMAIN rows
              /\ rows'[u.Id] = Row(u)]_vars

\* C14: Update of the SQL-backed repository with the values the row already
\* has succeeds, and NotFound is returned only when no row has the id.
UpdateUnchanged ==
    [][\A u \in SqlArgs :
          sqlLast'.op = "Update" /\ MysqlUpdate(u) =>
              /\ (u.Id \in DOMAIN rows /\ rows[u.Id] = Row(u))
                     => sqlLast'.err = Nil
              /\ sqlLast'.err = ErrUserNotFound => u.Id \notin DOMAIN rows]_vars

\* C15: on the closed in-memory repository Create, Get, GetByEmail,
\* GetByUsername, Update and Delete all return an error that is not NotFound,
\* DuplicateEmail or DuplicateUsername.
ClosedFails ==
    [][(closed /\ last'.op \in {"Create", "Get", "GetByEmail", "GetByUsername",
                                "Update", "Delete"})
          => last'.err \notin {Nil, ErrUserNotFound, ErrDuplicateEmail,
                               ErrDuplicateUsername}]_vars

(***************************************************************************)
(* The same calls made on both backends, as the tests of the datastore     *)
(* package make them: both repositories start empty and every call is made *)
(* on the in-memory repository and on the SQL-backed one with the same     *)
(* argument.                                                               *)
(***************************************************************************)
BothNext ==
    \/ /\ \E e \in Emails, n \in Usernames, pw \in Passwords : NewUser(e, n, pw)
       /\ UNCHANGED <<concVars, sqlVars, webVars>>
    \/ /\ \E v \in Vars : Drop(v)
       /\ UNCHANGED <<concVars, sqlVars, webVars>>
    \/ /\ \E v \in Vars : Create(v) /\ MysqlCreate(heap[caller[v]])
       /\ UNCHANGED <<concVars, webVars>>
    \/ /\ \E id \in Ids : Get(id) /\ MysqlGet(id)
       /\ UNCHANGED <<concVars, webVars>>
    \/ /\ \E e \in Emails : GetByEmail(e) /\ MysqlGetByEmail(e)
       /\ UNCHANGED <<concVars, webVars>>
    \/ /\ \E n \in Usernames : GetByUsername(n) /\ MysqlGetByUsername(n)
       /\ UNCHANGED <<concVars, webVars>>
    \/ /\ \E u \in UserArgs : Update(u) /\ MysqlUpdate(u)
       /\ UNCHANGED <<concVars, webVars>>
    \/ /\ \E id \in Ids : Delete(id) /\ MysqlDelete(id)
       /\ UNCHANGED <<concVars, webVars>>

BothSpec == Init /\ [][BothNext]_vars

\* C16: a call returns the same error on both backends, and every lookup
\* returns the same record on both.
SameOutcome ==
    /\ last.op = sqlLast.op => last.err = sqlLast.err
    /\ \A id \in Ids :
           GetRes(id).err = MysqlGetRes(id).err /\ GetRes(id).u = MysqlGetRes(id).u
    /\ \A e \in Emails :
           /\ GetByEmailRes(e).err = MysqlGetByEmailRes(e).err
           /\ GetByEmailRes(e).u = MysqlGetByEmailRes(e).u
    /\ \A n \in Usernames :
           /\ GetByUsernameRes(n).err = MysqlGetByUsernameRes(n).err
           /\ GetByUsernameRes(n).u = MysqlGetByUsernameRes(n).u

(***************************************************************************)
(* The auth service (user/auth/auth.go) on the in-memory repository.  A    *)
(* string is the sequence of its characters.  The characters are "a" (an   *)
(* ASCII letter), "1" (a digit), "@", ".", "-", "!" and "e9" (the letter   *)
(* U+00E9, two bytes in UTF-8).                                            *)
(***************************************************************************)
ErrEmptyRequiredField == "ErrEmptyRequiredField"
ErrInvalidUsernameLength == "ErrInvalidUsernameLength"
ErrInvalidEmail == "ErrInvalidEmail"
ErrPasswordTooShort == "ErrPasswordTooShort"
ErrInvalidUsername == "ErrInvalidUsername"
AuthErrWrongPassword == "auth.ErrWrongPassword"
ErrHashTooShort == "bcrypt.ErrHashTooShort"

\* The string of n characters c.
Rep(n, c) == [i \in 1..n |-> c]

\* len(str): the number of bytes of the string.
ByteLen(str) == Len(str) + Cardinality({i \in 1..Len(str) : str[i] = "e9"})

\* The character classes of emailRegexp: [A-Z0-9a-z._%+-], [A-Za-z0-9.-]
\* and [A-Za-z].
LocalChars == {"a", "1", ".", "-"}
DomainChars == {"a", "1", ".", "-"}
TldChars == {"a"}

\* emailRegexp.MatchString(str): some part of str matches
\* [A-Z0-9a-z._%+-]+@[A-Za-z0-9.-]+\.[A-Za-z]{2,6}
MatchString(str) ==
    \E i, j \in 1..Len(str) :
        /\ str[i] \in LocalChars
        /\ i + 1 <= Len(str) /\ str[i + 1] = "@"
        /\ i + 3 <= j
        /\ \A k \in (i + 2)..(j - 1) : str[k] \in DomainChars
        /\ str[j] = "."
        /\ j + 2 <= Len(str)
        /\ str[j + 1] \in TldChars /\ str[j + 2] \in TldChars

\* unicode.IsLetter(r) || unicode.IsNumber(r)
IsLetterOrNumber(r) == r \in {"a", "1", "e9"}

isAlphanumeric(str) == \A i \in 1..Len(str) : IsLetterOrNumber(str[i])

\* auth.ValidateUser
ValidateErr(u) ==
    IF u.Email = <<>> \/ u.Username = <<>> \/ u.Password = <<>>
      THEN ErrEmptyRequiredField
    ELSE IF ~MatchString(u.Email) THEN ErrInvalidEmail
    ELSE IF ~isAlphanumeric(u.Username) THEN ErrInvalidUsername
    ELSE IF ByteLen(u.Username) < 3 \/ ByteLen(u.Username) > 25
      THEN ErrInvalidUsernameLength
    ELSE IF ByteLen(u.Password) < 6 THEN ErrPasswordTooShort
    ELSE Nil

ValidateUser(v) ==
    /\ v \in DOMAIN caller
    /\ last' = Call("ValidateUser", ValidateErr(heap[caller[v]]))
    /\ UNCHANGED <<heap, users, emails, usernames, idCnt, closed, caller,
                   origin, edits>>

\* bcrypt.GenerateFromPassword draws a fresh salt for every hash.
Salts == {"s1", "s2"}

\* auth.HashPassword: the bcrypt hash of the password under the salt, a
\* string that starts with the version "$2a$" and the salt and is
\* determined by the salt and the password.
HashPassword(password, salt) == <<"$2a$", salt>> \o password

\* CompareHashAndPassword as it would be if it turned every error of
\* bcrypt into ErrWrongPassword.
CompareAnyErrWrongPassword(hash, password) ==
    IF Len(hash) >= 2 /\ hash[1] = "$2a$"
          /\ hash = HashPassword(password, hash[2])
      THEN Nil
    ELSE AuthErrWrongPassword

\* auth.CompareHashAndPassword: nil when hash is a hash of the password,
\* ErrWrongPassword when it is the hash of another password, and the
\* error of bcrypt when hash is no bcrypt hash at all.
CompareHashAndPassword(hash, password) ==
    IF Len(hash) < 2 \/ hash[1] # "$2a$" THEN ErrHashTooShort
    ELSE IF hash = HashPassword(password, hash[2]) THEN Nil
    ELSE AuthErrWrongPassword

\* a.r.Create(u) for the record hu that CreateUser has written to the
\* record v points to.
CreateHashed(v, hu) ==
    LET p == caller[v]
    IN  /\ closed \/ idCnt < MaxId
        /\ idCnt' = IF closed THEN idCnt ELSE idCnt + 1
        /\ last' = Call("CreateUser", CreateErr(hu))
        /\ IF CreateErr(hu) = Nil
             THEN /\ heap' = [heap EXCEPT ![p] = [hu EXCEPT !.Id = idCnt']]
                  /\ users' = Put(users, idCnt', Ptr(p))
                  /\ emails' = Put(emails, hu.Email, Ptr(p))
                  /\ usernames' = Put(usernames, hu.Username, Ptr(p))
                  /\ origin' = [origin EXCEPT ![v] = "created"]
             ELSE /\ heap' = [heap EXCEPT ![p] = hu]
                  /\ UNCHANGED <<users, emails, usernames, origin>>
        /\ UNCHANGED <<closed, caller, edits>>

\* CreateUser as it would be without the call of ValidateUser.
CreateUserUnchecked(v) ==
    /\ v \in DOMAIN caller
    /\ LET u == heap[caller[v]]
       IN  \E salt \in Salts :
               CreateHashed(v, [u EXCEPT
                   !.Password = HashPassword(u.Password, salt)])

\* CreateUser as it would be if it passed the record on as it came.
CreateUserPlain(v) ==
    /\ v \in DOMAIN caller
    /\ LET u == heap[caller[v]]
       IN  IF ValidateErr(u) # Nil
             THEN /\ last' = Call("CreateUser", ValidateErr(u))
                  /\ UNCHANGED <<heap, users, emails, usernames, idCnt,
                                 closed, caller, origin, edits>>
             ELSE CreateHashed(v, u)

\* auth.CreateUser
CreateUser(v) ==
    /\ v \in DOMAIN caller
    /\ LET u == heap[caller[v]]
       IN  IF ValidateErr(u) # Nil
             THEN /\ last' = Call("CreateUser", ValidateErr(u))
                  /\ UNCHANGED <<heap, users, emails, usernames, idCnt,
                                 closed, caller, origin, edits>>
             ELSE \E salt \in Salts :
                      CreateHashed(v, [u EXCEPT
                          !.Password = HashPassword(u.Password, salt)])

\* What AuthenticateUser returns for the email and the password.
AuthenticateUserRes(email, password) ==
    LET r == GetByEmailRes(email)
    IN  IF r.err # Nil THEN r
        ELSE IF CompareHashAndPassword(r.u.Password, password) # Nil
          THEN [err |-> CompareHashAndPassword(r.u.Password, password),
                u |-> NoUser]
        ELSE r

\* auth.AuthenticateUser; the caller keeps the error and lets the returned
\* copy go.
AuthenticateUser(email, password) ==
    /\ last' = Call("AuthenticateUser",
                    AuthenticateUserRes(email, password).err)
    /\ UNCHANGED <<heap, users, emails, usernames, idCnt, closed, caller,
                   origin, edits>>

\* The strings ValidateUser is applied to.
ValidateEmails ==
    { <<>>,
      <<"a", "@", "a", ".", "a", "a">>,
      <<"1", "@", "a", ".", "a", "a">>,
      <<"a", "@", "a">>,
      <<"a", "@", "a", ".", "a", "a", "!">> }
ValidateUsernames ==
    { <<>>, Rep(2, "a"), Rep(3, "a"), Rep(3, "1"), <<"a", "-", "a">>,
      <<"-">>, Rep(2, "e9"), Rep(13, "e9"), Rep(26, "a") }
ValidatePasswords == { <<>>, Rep(5, "a"), Rep(6, "a"), Rep(6, "1") }

ValidateNext ==
    \/ /\ \E e \in ValidateEmails, n \in ValidateUsernames,
             pw \in ValidatePasswords : NewUser(e, n, pw)
       /\ UNCHANGED <<concVars, sqlVars, webVars>>
    \/ /\ \E v \in Vars : Drop(v)
       /\ UNCHANGED <<concVars, sqlVars, webVars>>
    \/ /\ \E v \in Vars : ValidateUser(v)
       /\ UNCHANGED <<concVars, sqlVars, webVars>>

ValidateSpec == Init /\ [][ValidateNext]_vars

\* The strings the callers of the service pass in.
AuthEmails == { <<"a", "@", "a", ".", "a", "a">>,
                <<"1", "@", "a", ".", "a", "a">> }
AuthUsernames == { Rep(3, "a"), Rep(3, "1") }
AuthPasswords == { Rep(5, "a"), Rep(6, "a"), Rep(6, "1") }

AuthNext ==
    \/ /\ \E e \in AuthEmails, n \in AuthUsernames, pw \in AuthPasswords :
              NewUser(e, n, pw)
       /\ UNCHANGED <<concVars, sqlVars, webVars>>
    \/ /\ \E v \in Vars, e \in AuthEmails : SetEmail(v, e)
       /\ UNCHANGED <<concVars, sqlVars, webVars>>
    \/ /\ \E v \in Vars : Drop(v)
       /\ UNCHANGED <<concVars, sqlVars, webVars>>
    \/ /\ \E v \in Vars : CreateUser(v)
       /\ UNCHANGED <<concVars, sqlVars, webVars>>
    \/ /\ \E e \in AuthEmails, pw \in AuthPasswords : AuthenticateUser(e, pw)
       /\ UNCHANGED <<concVars, sqlVars, webVars>>

AuthSpec == Init /\ [][AuthNext]_vars

(***************************************************************************)
(* The claims about the auth service.                                      *)
(***************************************************************************)
\* C17: ValidateUser returns the error of the first failing check in the
\* fixed order: an empty email, username or password gives
\* ErrEmptyRequiredField; else an email that is not of the form
\* local@domain.tld, with a tld of 2 to 6 letters, gives ErrInvalidEmail; else
\* a username with a character that is no letter and no digit gives
\* ErrInvalidUsername; else a username of fewer than 3 or more than 25
\* characters gives ErrInvalidUsernameLength; else a password of fewer than 6
\* characters gives ErrPasswordTooShort; else nil.
ValidationOrder ==
    [][\A v \in DOMAIN caller :
          last'.op = "ValidateUser" /\ ValidateUser(v) =>
              LET u == heap[caller[v]]
                  WellFormed(str) ==
                      \E i, j \in 1..Len(str) :
                          /\ 1 < i /\ str[i] = "@"
                          /\ \A k \in 1..(i - 1) : str[k] \in LocalChars
                          /\ i + 1 < j /\ str[j] = "."
                          /\ \A k \in (i + 1)..(j - 1) : str[k] \in DomainChars
                          /\ Len(str) - j \in 2..6
                          /\ \A k \in (j + 1)..Len(str) : str[k] \in TldChars
              IN  last'.err =
                      IF <<>> \in {u.Email, u.Username, u.Password}
                        THEN ErrEmptyRequiredField
                      ELSE IF ~WellFormed(u.Email) THEN ErrInvalidEmail
                      ELSE IF \E i \in 1..Len(u.Username) :
                                  ~IsLetterOrNumber(u.Username[i])
                        THEN ErrInvalidUsername
                      ELSE IF Len(u.Username) \notin 3..25
                        THEN ErrInvalidUsernameLength
                      ELSE IF Len(u.Password) < 6 THEN ErrPasswordTooShort
                      ELSE Nil]_vars

\* C18: when ValidateUser rejects the record, CreateUser returns that
\* error and the repository is as it was before the call.
InvalidNotCreated ==
    [][\A v \in DOMAIN caller :
          /\ last'.op = "CreateUser"
          /\ ValidateErr(heap[caller[v]]) # Nil
          /\ CreateUser(v)
          => /\ last'.err = ValidateErr(heap[caller[v]])
             /\ Contents' = Contents
             /\ idCnt' = idCnt]_vars

InvalidNotCreatedWitness ==
    /\ last = Call("CreateUser", ErrPasswordTooShort)
    /\ DOMAIN users = {1}
    /\ \E v \in DOMAIN caller : heap[caller[v]].Password = Rep(5, "a")

\* C19: the password of the record a successful CreateUser stores is a
\* hash of the password that was submitted, and is not that password.
StoresHash ==
    [][\A v \in DOMAIN caller :
          last'.op = "CreateUser" /\ last'.err = Nil /\ CreateUser(v) =>
              LET submitted == heap[caller[v]].Password
                  stored == Contents'.users[idCnt'].Password
              IN  /\ stored # submitted
                  /\ CompareHashAndPassword(stored, submitted) = Nil]_vars

StoresHashWitness ==
    /\ last = Call("CreateUser", Nil)
    /\ DOMAIN users = {1, 2}
    /\ \A id \in DOMAIN users :
           \E pw \in AuthPasswords :
               CompareHashAndPassword(Stored(id).Password, pw) = Nil

\* What AuthenticateUser returns for every email and password.
Authenticated ==
    [e \in AuthEmails, pw \in AuthPasswords |-> AuthenticateUserRes(e, pw)]

\* C20: after a successful CreateUser(u) with the password p,
\* AuthenticateUser(u.Email, p) returns the stored user and
\* AuthenticateUser(u.Email, q) returns ErrWrongPassword for every other
\* password q; AuthenticateUser with an email no stored user has returns
\* ErrUserNotFound.
CreateThenAuthenticate ==
    [][/\ \A v \in DOMAIN caller :
              last'.op = "CreateUser" /\ last'.err = Nil /\ CreateUser(v) =>
                  LET u == heap[caller[v]]
                  IN  u.Password \in AuthPasswords =>
                          /\ Authenticated'[u.Email, u.Password]
                                 = Found(Contents'.users[idCnt'])
                          /\ \A q \in AuthPasswords \ {u.Password} :
                                 Authenticated'[u.Email, q].err
                                     = AuthErrWrongPassword
       /\ \A e \in AuthEmails, pw \in AuthPasswords :
              /\ last'.op = "AuthenticateUser"
              /\ ~EmailHeld(e)
              /\ AuthenticateUser(e, pw)
              => last'.err = ErrUserNotFound]_vars

(***************************************************************************)
(* The auth service next to direct calls of the repository it was built    *)
(* on: TestAuthenticateUser replaces the stored password of a user by a    *)
(* string that is no hash with repo.Update.                                *)
(***************************************************************************)
CorruptArgs == {User(id, e, n, Rep(6, "a")) : id \in Ids, e \in AuthEmails,
                                              n \in AuthUsernames}

CorruptNext ==
    \/ AuthNext
    \/ /\ \E u \in CorruptArgs : Update(u)
       /\ UNCHANGED <<concVars, sqlVars, webVars>>

CorruptSpec == Init /\ [][CorruptNext]_vars

\* C21: when the stored password of the user with the email is no
\* well-formed hash, AuthenticateUser returns an error that is neither nil nor
\* ErrWrongPassword, whatever the password.
MalformedHashPassedOn ==
    [][\A e \in AuthEmails, pw \in AuthPasswords :
          /\ last'.op = "AuthenticateUser"
          /\ e \in DOMAIN emails
          /\ LET h == At(emails[e]).Password
             IN  Len(h) < 2 \/ h[1] # "$2a$"
          /\ AuthenticateUser(e, pw)
          => last'.err \notin {Nil, AuthErrWrongPassword, ErrWrongPassword}]_vars

MalformedHashPassedOnWitness ==
    /\ last = Call("AuthenticateUser", ErrHashTooShort)
    /\ \E id \in DOMAIN users : Stored(id).Password \in AuthPasswords

(***************************************************************************)
(* The session service (package session): the session "user_session" of a  *)
(* client, kept in a cookie the client sends with every request.  The      *)
(* cookie store reads and saves it without error.                          *)
(***************************************************************************)
ErrUserNotSet == "ErrUserNotSet"
ErrUserNotLoggedIn == "ErrUserNotLoggedIn"

\* sess.Values["loggedin"] == true
LoggedIn(c) == "loggedin" \in DOMAIN values[c] /\ values[c]["loggedin"] = TRUE

\* The Values LogInUser saves.
LogIn(v, username) == Put(Put(v, "loggedin", TRUE), "username", username)

\* session.LogInUser
LogInUser(c, username) ==
    /\ values' = [values EXCEPT ![c] = LogIn(@, username)]
    /\ resp' = Answer("LogInUser", c, Nil, 0)

\* What LogOutUser returns.
LogOutErr(c) == IF LoggedIn(c) THEN Nil ELSE ErrUserNotLoggedIn

\* LogOutUser as it would be if it deleted the key "loggedin" only.
LogOutUserKeepsUsername(c) ==
    /\ values' = [values EXCEPT
                     ![c] = [k \in DOMAIN @ \ {"loggedin"} |-> @[k]]]
    /\ resp' = Answer("LogOutUser", c, LogOutErr(c), 0)

\* LogOutUser as it would be if it returned nil when no user is logged in.
LogOutUserNil(c) ==
    /\ values' = IF LoggedIn(c) THEN [values EXCEPT ![c] = EmptyMap]
                 ELSE values
    /\ resp' = Answer("LogOutUser", c, Nil, 0)

\* session.LogOutUser
LogOutUser(c) ==
    /\ values' = IF LoggedIn(c) THEN [values EXCEPT ![c] = EmptyMap]
                 ELSE values
    /\ resp' = Answer("LogOutUser", c, LogOutErr(c), 0)

\* session.UserLoggedIn
UserLoggedIn(c) ==
    /\ resp' = Answer("UserLoggedIn", c, Nil, LoggedIn(c))
    /\ UNCHANGED values

\* What CurrentUser returns: the username and the error.
CurrentUserRes(c) ==
    IF "username" \in DOMAIN values[c]
      THEN [err |-> Nil, ret |-> values[c]["username"]]
    ELSE [err |-> ErrUserNotSet, ret |-> <<>>]

\* session.CurrentUser
CurrentUser(c) ==
    /\ resp' = Answer("CurrentUser", c, CurrentUserRes(c).err,
                      CurrentUserRes(c).ret)
    /\ UNCHANGED values

\* The usernames passed to LogInUser.
SessionNames == {Rep(3, "a"), Rep(3, "1"), Rep(4, "a")}

SessionNext ==
    \/ /\ \E c \in Clients, n \in SessionNames : LogInUser(c, n)
       /\ UNCHANGED <<repoVars, concVars, sqlVars, account>>
    \/ /\ \E c \in Clients : LogOutUser(c)
       /\ UNCHANGED <<repoVars, concVars, sqlVars, account>>
    \/ /\ \E c \in Clients : UserLoggedIn(c)
       /\ UNCHANGED <<repoVars, concVars, sqlVars, account>>
    \/ /\ \E c \in Clients : CurrentUser(c)
       /\ UNCHANGED <<repoVars, concVars, sqlVars, account>>

SessionSpec == Init /\ [][SessionNext]_vars

\* What UserLoggedIn and CurrentUser return for every client.
Session ==
    [c \in Clients |-> [loggedIn |-> LoggedIn(c), user |-> CurrentUserRes(c)]]

\* C23: in the session of a client UserLoggedIn is true exactly when the
\* last successful call of LogInUser or LogOutUser was a LogInUser, and then
\* CurrentUser returns the username of that call; before any login and after
\* a logout UserLoggedIn is false and CurrentUser returns the empty username
\* and ErrUserNotSet.
SessionFollowsCalls ==
    /\ \A c \in Clients :
           Session[c] = [loggedIn |-> FALSE,
                         user |-> [err |-> ErrUserNotSet, ret |-> <<>>]]
    /\ [][\A c \in Clients :
             IF resp'.op = "LogInUser" /\ resp'.client = c /\ resp'.err = Nil
               THEN \A n \in SessionNames :
                        LogInUser(c, n) =>
                            Session'[c] = [loggedIn |-> TRUE,
                                           user |-> [err |-> Nil, ret |-> n]]
             ELSE IF resp'.op = "LogOutUser" /\ resp'.client = c
                         /\ resp'.err = Nil
               THEN Session'[c] = [loggedIn |-> FALSE,
                                   user |-> [err |-> ErrUserNotSet,
                                             ret |-> <<>>]]
             ELSE Session'[c] = Session[c]]_vars

SessionFollowsCallsWitness ==
    /\ resp = Answer("LogOutUser", 1, Nil, 0)
    /\ Session[1].user.err = ErrUserNotSet
    /\ Session[2] = [loggedIn |-> TRUE,
                     user |-> [err |-> Nil, ret |-> Rep(3, "a")]]

\* C24: LogOutUser on a session in which no user is logged in returns
\* ErrUserNotLoggedIn and leaves the session as it is.
LogOutNotLoggedIn ==
    [][\A c \in Clients :
          resp'.op = "LogOutUser" /\ ~LoggedIn(c) /\ LogOutUser(c) =>
              resp'.err = ErrUserNotLoggedIn /\ values' = values]_vars

LogOutNotLoggedInWitness ==
    /\ resp = Answer("LogOutUser", 1, ErrUserNotLoggedIn, 0)
    /\ values[1] = EmptyMap
    /\ LoggedIn(2)

(***************************************************************************)
(* The HTTP handlers (user/handler/handler.go) on the in-memory            *)
(* repository: every request comes from a client and carries its session.  *)
(***************************************************************************)
\* IsValidationErr as it would be without the case ErrInvalidUsernameLength.
IsValidationErrNoLength(err) ==
    err \in {ErrEmptyRequiredField, ErrInvalidEmail, ErrPasswordTooShort,
             ErrInvalidUsername}

\* auth.IsValidationErr
IsValidationErr(err) ==
    err \in {ErrEmptyRequiredField, ErrInvalidUsernameLength, ErrInvalidEmail,
             ErrPasswordTooShort, ErrInvalidUsername}

\* The status RegisterUser answers with when CreateUser has returned err.
RegisterStatus(err) ==
    IF err = Nil THEN 200 ELSE IF IsValidationErr(err) THEN 400 ELSE 500

\* RegisterUser as it would be if it answered 500 to every error.
RegisterUserNoCheck(c, e, n, pw) ==
    LET u == User(0, e, n, pw)
    IN  /\ UNCHANGED <<heap, closed, caller, origin, edits, values>>
        /\ IF ValidateErr(u) # Nil
             THEN /\ last' = Call("CreateUser", ValidateErr(u))
                  /\ resp' = Answer("RegisterUser", c, ValidateErr(u), 500)
                  /\ UNCHANGED <<users, emails, usernames, idCnt>>
             ELSE \E salt \in Salts :
                      LET hu == [u EXCEPT
                                    !.Password = HashPassword(pw, salt)]
                          err == CreateErr(hu)
                          new == Own([hu EXCEPT !.Id = idCnt'])
                      IN  /\ closed \/ idCnt < MaxId
                          /\ idCnt' = IF closed THEN idCnt ELSE idCnt + 1
                          /\ last' = Call("CreateUser", err)
                          /\ resp' = Answer("RegisterUser", c, err,
                                            IF err = Nil THEN 200 ELSE 500)
                          /\ IF err = Nil
                               THEN /\ users' = Put(users, idCnt', new)
                                    /\ emails' = Put(emails, e, new)
                                    /\ usernames' = Put(usernames, n, new)
                               ELSE UNCHANGED <<users, emails, usernames>>

\* Handler.RegisterUser: the record is the handler's own, no pointer to it
\* is left when the handler returns.
RegisterUser(c, e, n, pw) ==
    LET u == User(0, e, n, pw)
    IN  /\ UNCHANGED <<heap, closed, caller, origin, edits, values>>
        /\ IF ValidateErr(u) # Nil
             THEN /\ last' = Call("CreateUser", ValidateErr(u))
                  /\ resp' = Answer("RegisterUser", c, ValidateErr(u),
                                    RegisterStatus(ValidateErr(u)))
                  /\ UNCHANGED <<users, emails, usernames, idCnt>>
             ELSE \E salt \in Salts :
                      LET hu == [u EXCEPT
                                    !.Password = HashPassword(pw, salt)]
                          err == CreateErr(hu)
                          new == Own([hu EXCEPT !.Id = idCnt'])
                      IN  /\ closed \/ idCnt < MaxId
                          /\ idCnt' = IF closed THEN idCnt ELSE idCnt + 1
                          /\ last' = Call("CreateUser", err)
                          /\ resp' = Answer("RegisterUser", c, err,
                                            RegisterStatus(err))
                          /\ IF err = Nil
                               THEN /\ users' = Put(users, idCnt', new)
                                    /\ emails' = Put(emails, e, new)
                                    /\ usernames' = Put(usernames, n, new)
                               ELSE UNCHANGED <<users, emails, usernames>>

\* LoginStatus as it would be without the case auth.ErrWrongPassword.
LoginStatusNoUnauthorized(err) ==
    IF err = Nil THEN 200
    ELSE IF err = ErrUserNotFound THEN 404
    ELSE 500

\* The status UserLogin answers with when AuthenticateUser has returned err.
LoginStatus(err) ==
    IF err = Nil THEN 200
    ELSE IF err = ErrUserNotFound THEN 404
    ELSE IF err = AuthErrWrongPassword THEN 401
    ELSE 500

\* Handler.UserLogin
UserLogin(c, e, pw) ==
    /\ UNCHANGED <<heap, users, emails, usernames, idCnt, closed, caller,
                   origin, edits>>
    /\ IF e = <<>> \/ pw = <<>>
         THEN /\ resp' = Answer("UserLogin", c, ErrEmptyRequiredField, 400)
              /\ UNCHANGED <<last, values>>
         ELSE LET r == AuthenticateUserRes(e, pw)
              IN  /\ last' = Call("AuthenticateUser", r.err)
                  /\ resp' = Answer("UserLogin", c, r.err, LoginStatus(r.err))
                  /\ values' = IF r.err = Nil
                                 THEN [values EXCEPT
                                          ![c] = LogIn(@, r.u.Username)]
                               ELSE values

\* Handler.UserLogout
UserLogout(c) ==
    /\ values' = IF LoggedIn(c) THEN [values EXCEPT ![c] = EmptyMap]
                 ELSE values
    /\ resp' = Answer("UserLogout", c, LogOutErr(c),
                      IF LogOutErr(c) = Nil THEN 200 ELSE 404)
    /\ UNCHANGED repoVars

\* The form values of the requests.
FormEmails == AuthEmails \cup {<<>>}
FormPasswords == {<<>>, Rep(6, "a"), Rep(6, "1")}

\* The requests, and the calls the tests of the handlers and of the auth
\* service make on the repository itself: Close, and Update with a password
\* that is no hash.
HandlerNext ==
    \/ /\ \E c \in Clients, e \in FormEmails, n \in AuthUsernames,
             pw \in FormPasswords : RegisterUser(c, e, n, pw)
       /\ UNCHANGED <<concVars, sqlVars, account>>
    \/ /\ \E c \in Clients, e \in FormEmails, pw \in FormPasswords :
              UserLogin(c, e, pw)
       /\ UNCHANGED <<concVars, sqlVars, account>>
    \/ /\ \E c \in Clients : UserLogout(c)
       /\ UNCHANGED <<concVars, sqlVars, account>>
    \/ /\ Close
       /\ UNCHANGED <<concVars, sqlVars, webVars>>
    \/ /\ \E u \in CorruptArgs : Update(u)
       /\ UNCHANGED <<concVars, sqlVars, webVars>>

HandlerSpec == Init /\ [][HandlerNext]_vars

\* C22: IsValidationErr is true for ErrEmptyRequiredField, ErrInvalidEmail,
\* ErrInvalidUsername, ErrInvalidUsernameLength and ErrPasswordTooShort and
\* false for nil and every other error, the error RegisterUser has just
\* passed to it included.
ClassifiesValidationErrs ==
    \A err \in {Nil, ErrEmptyRequiredField, ErrInvalidEmail,
                ErrInvalidUsername, ErrInvalidUsernameLength,
                ErrPasswordTooShort, AuthErrWrongPassword, ErrWrongPassword,
                ErrUserNotFound, ErrDuplicateEmail, ErrDuplicateUsername,
                ErrClosed, ErrHashTooShort, ErrNoRows, ErrUserNotSet,
                ErrUserNotLoggedIn, last.err} :
        IsValidationErr(err) <=>
            err \in {ErrEmptyRequiredField, ErrInvalidEmail,
                     ErrInvalidUsername, ErrInvalidUsernameLength,
                     ErrPasswordTooShort}

ClassifiesValidationErrsWitness ==
    /\ resp.op = "RegisterUser"
    /\ resp.err = ErrDuplicateUsername
    /\ resp.ret = 500
    /\ ~IsValidationErr(resp.err)

\* C25: UserLogin answers 400 with ErrEmptyRequiredField to an empty email
\* or password and does not call the repository; else 404 when no user has
\* the email, 401 when the password is not the one the stored hash was made
\* of, and 500 for any other error; when the password is the right one it
\* answers 200 and the session is logged in under the username of the
\* record.  With any other answer the session stays as it is.
LoginOutcome ==
    [][\A c \in Clients, e \in FormEmails, pw \in FormPasswords :
          resp'.op = "UserLogin" /\ resp'.client = c /\ UserLogin(c, e, pw) =>
              LET held == {id \in DOMAIN users : Stored(id).Email = e}
              IN  /\ IF e = <<>> \/ pw = <<>>
                       THEN /\ resp'.ret = 400
                            /\ resp'.err = ErrEmptyRequiredField
                            /\ last' = last
                     ELSE IF held = {} THEN resp'.ret = 404
                     ELSE \A id \in held :
                            LET h == Stored(id).Password
                            IN  IF Len(h) < 2 \/ h[1] # "$2a$"
                                  THEN resp'.ret = 500
                                ELSE IF h # HashPassword(pw, h[2])
                                  THEN resp'.ret = 401
                                ELSE /\ resp'.ret = 200
                                     /\ Session'[c] =
                                          [loggedIn |-> TRUE,
                                           user |-> [err |-> Nil,
                                             ret |-> Stored(id).Username]]
                  /\ resp'.ret # 200 => values' = values
                  /\ \A d \in Clients \ {c} : values'[d] = values[d]]_vars

LoginOutcomeWitness ==
    /\ resp = Answer("UserLogin", 2, AuthErrWrongPassword, 401)
    /\ LoggedIn(1)
    /\ ~LoggedIn(2)

\* C26: RegisterUser answers 400 exactly when CreateUser returns one of the
\* five validation errors, and then nothing is stored; 500 for any other
\* error of CreateUser; 200 when CreateUser succeeds, and then GetByEmail
\* finds a user with the email and the username of the request, with the id 1
\* when the repository was new.
RegisterOutcome ==
    [][resp'.op = "RegisterUser" /\ last'.op = "CreateUser" =>
          LET err == last'.err
              invalid == err \in {ErrEmptyRequiredField, ErrInvalidEmail,
                                  ErrInvalidUsername,
                                  ErrInvalidUsernameLength,
                                  ErrPasswordTooShort}
          IN  /\ resp'.ret = 400 <=> invalid
              /\ invalid => Contents' = Contents
              /\ err # Nil /\ ~invalid => resp'.ret = 500
              /\ err = Nil =>
                     /\ resp'.ret = 200
                     /\ \A e \in FormEmails, n \in AuthUsernames,
                           pw \in FormPasswords :
                            RegisterUser(resp'.client, e, n, pw) =>
                                /\ e \in DOMAIN Contents'.emails
                                /\ Contents'.emails[e].Email = e
                                /\ Contents'.emails[e].Username = n
                                /\ idCnt = 0 => Contents'.emails[e].Id = 1]_vars

RegisterOutcomeWitness ==
    /\ resp.op = "RegisterUser"
    /\ resp.ret = 400
    /\ resp.err = ErrEmptyRequiredField
    /\ DOMAIN users = {1}

\* C27: once the repository is closed, UserLogin with an email and a password
\* that are not empty answers 500 and does not log the session in; a user was
\* registered before the repository was closed.
ClosedLogin ==
    [][\A c \in Clients, e \in FormEmails \ {<<>>},
          pw \in FormPasswords \ {<<>>} :
          /\ resp'.op = "UserLogin"
          /\ resp'.client = c
          /\ closed
          /\ idCnt >= 1
          /\ UserLogin(c, e, pw)
          => resp'.ret = 500 /\ values' = values]_vars

(***************************************************************************)
(* The SQL-backed repository when a statement can fail.  The fault of a    *)
(* statement is "none" when the server executes it, "mysql" when the       *)
(* server rejects it with a *mysql.MySQLError whose number is not 1062     *)
(* (1406 data too long, 1146 no such table), and "conn" when database/sql  *)
(* returns an error that is no *mysql.MySQLError (the connection is        *)
(* closed).                                                                *)
(***************************************************************************)
Faults == {"none", "mysql", "conn"}

\* fmt.Errorf("error converting to mysql error: %s", err.Error())
ErrConverting == "error converting to mysql error"

\* mysqlRepo.Create
MysqlCreateOn(u, f) ==
    IF f = "none" THEN MysqlCreate(u)
    ELSE /\ sqlLast' = Reply("Create",
                             IF f = "mysql" THEN Nil ELSE ErrConverting,
                             NoUser)
         /\ UNCHANGED <<rows, autoInc>>

\* mysqlRepo.Update: res is nil when Exec has returned an error.
MysqlUpdateOn(u, f) ==
    IF f = "none" THEN MysqlUpdate(u)
    ELSE /\ sqlLast' = Reply("Update",
                             IF f = "mysql" THEN ErrNilResult
                             ELSE ErrConverting,
                             NoUser)
         /\ UNCHANGED <<rows, autoInc>>

\* mysqlRepo.Authenticate: when Scan fails with another error than
\* sql.ErrNoRows, u is still the zero user.
MysqlAuthenticateOn(e, pass, f) ==
    IF f = "none" THEN MysqlAuthenticate(e, pass)
    ELSE /\ sqlLast' = Reply("Authenticate",
                             IF NoUser.Password # pass THEN ErrWrongPassword
                             ELSE Nil,
                             NoUser)
         /\ UNCHANGED <<rows, autoInc>>

SqlFaultNext ==
    \/ /\ \E u \in SqlArgs, f \in Faults : MysqlCreateOn(u, f)
       /\ UNCHANGED <<repoVars, concVars, webVars>>
    \/ /\ \E id \in Ids : MysqlGet(id)
       /\ UNCHANGED <<repoVars, concVars, webVars>>
    \/ /\ \E u \in SqlArgs, f \in Faults : MysqlUpdateOn(u, f)
       /\ UNCHANGED <<repoVars, concVars, webVars>>
    \/ /\ \E id \in Ids : MysqlDelete(id)
       /\ UNCHANGED <<repoVars, concVars, webVars>>
    \/ /\ \E e \in Emails, pw \in Passwords \cup {""}, f \in Faults :
              MysqlAuthenticateOn(e, pw, f)
       /\ UNCHANGED <<repoVars, concVars, webVars>>

SqlFaultSpec == Init /\ [][SqlFaultNext]_vars

\* C28: Create of the SQL-backed repository returns nil only when its
\* INSERT has added the row; when the INSERT fails on a duplicate key it
\* returns ErrDuplicateEmail or ErrDuplicateUsername, and when it fails
\* otherwise it returns an error, whatever the id of the record passed.
InsertFailureReported ==
    [][\A u \in SqlArgs, f \in Faults :
          sqlLast'.op = "Create" /\ MysqlCreateOn(u, f) =>
              /\ sqlLast'.err = Nil => rows' # rows
              /\ f = "none" /\ DuplicateKey(u, 0) =>
                     sqlLast'.err \in {ErrDuplicateEmail,
                                       ErrDuplicateUsername}
              /\ f # "none" => sqlLast'.err # Nil]_vars

\* C29: when the UPDATE fails, Update of the SQL-backed repository returns
\* ErrDuplicateEmail or ErrDuplicateUsername for a key held by another row
\* and the failure otherwise: it does not read the affected rows of the
\* failed statement and returns neither nil nor ErrUserNotFound.
UpdateFailureReported ==
    [][\A u \in SqlArgs, f \in Faults :
          /\ sqlLast'.op = "Update"
          /\ f # "none" \/ (u.Id \in DOMAIN rows /\ DuplicateKey(u, u.Id))
          /\ MysqlUpdateOn(u, f)
          => /\ sqlLast'.err \notin {Nil, ErrUserNotFound, ErrNilResult}
             /\ f = "none" => sqlLast'.err \in {ErrDuplicateEmail,
                                                ErrDuplicateUsername}]_vars

\* C30: Authenticate of the SQL-backed repository returns a user and nil
\* only when a row has the email and its password is the given one, and when
\* the SELECT fails with another error than "no rows" it returns that error,
\* neither nil nor ErrWrongPassword, the empty password included.
LookupFailureReported ==
    [][\A e \in Emails, pw \in Passwords \cup {""}, f \in Faults :
          sqlLast'.op = "Authenticate" /\ MysqlAuthenticateOn(e, pw, f) =>
              /\ sqlLast'.err = Nil =>
                     \E id \in DOMAIN rows :
                         rows[id].Email = e /\ rows[id].Password = pw
              /\ f # "none" =>
                     sqlLast'.err \notin {Nil, ErrWrongPassword}]_vars

(***************************************************************************)
(* The rules of ValidateUser for the username and the email.               *)
(***************************************************************************)
\* C39: for a username of letters and digits that ValidateUser gets as far
\* as measuring, it returns ErrInvalidUsernameLength exactly when the
\* username has fewer than 3 or more than 25 characters, whatever the number
\* of bytes of its characters.
LengthInCharacters ==
    [][\A v \in DOMAIN caller :
          /\ last'.op = "ValidateUser"
          /\ last'.err \notin {ErrEmptyRequiredField, ErrInvalidEmail}
          /\ isAlphanumeric(heap[caller[v]].Username)
          /\ ValidateUser(v)
          => (last'.err = ErrInvalidUsernameLength
                  <=> Len(heap[caller[v]].Username) \notin 3..25)]_vars

\* C40: ValidateUser returns ErrInvalidEmail for every email that is not
\* empty and is not as a whole of the form local@domain.tld, with a local
\* part of letters, digits and ._%+-, a domain of letters, digits and .- and a
\* last label of 2 to 6 letters; the username and the password are not empty.
WholeEmailMatched ==
    [][\A v \in DOMAIN caller :
          LET u == heap[caller[v]]
              str == u.Email
          IN  /\ last'.op = "ValidateUser"
              /\ <<>> \notin {u.Email, u.Username, u.Password}
              /\ ~ \E i, j \in 1..Len(str) :
                      /\ 1 < i /\ str[i] = "@"
                      /\ \A k \in 1..(i - 1) : str[k] \in LocalChars
                      /\ i + 1 < j /\ str[j] = "."
                      /\ \A k \in (i + 1)..(j - 1) : str[k] \in DomainChars
                      /\ Len(str) - j \in 2..6
                      /\ \A k \in (j + 1)..Len(str) : str[k] \in TldChars
              /\ ValidateUser(v)
              => last'.err = ErrInvalidEmail]_vars

(***************************************************************************)
(* The ids of the in-memory repository over a longer run of Create calls:  *)
(* the caller builds records and passes them to Create, with duplicates    *)
(* among them, as TestCreateUser does.                                     *)
(***************************************************************************)
MaxCalls == 4

CountNext ==
    \/ /\ \E e \in Emails, n \in Usernames : NewUser(e, n, "p1")
       /\ UNCHANGED <<concVars, sqlVars, webVars>>
    \/ /\ \E v \in Vars : Drop(v)
       /\ UNCHANGED <<concVars, sqlVars, webVars>>
    \/ /\ \E v \in Vars : CreateWithin(v, MaxCalls)
       /\ UNCHANGED <<concVars, sqlVars, webVars>>
    \/ /\ Close
       /\ UNCHANGED <<concVars, sqlVars, webVars>>

CountSpec == Init /\ [][CountNext]_vars

\* C32: the id a successful Create assigns is the number of the Create calls
\* made so far on the open repository, the failed ones counted: idCnt is 0
\* at first, every Create on the open repository adds one to it whatever it
\* returns, no other call changes it, and a successful Create assigns the new
\* value.
IdCountsCalls ==
    /\ idCnt = 0
    /\ [][/\ idCnt' = IF last'.op = "Create" /\ ~closed THEN idCnt + 1
                      ELSE idCnt
          /\ \A v \in DOMAIN caller :
                 /\ last'.op = "Create" /\ last'.err = Nil
                 /\ CreateWithin(v, MaxCalls)
                 => /\ heap'[caller[v]].Id = idCnt'
                    /\ idCnt' \in DOMAIN users']_vars

\* One stored user, two Creates that failed with a duplicate, and the next
\* successful Create has assigned the id 4.
IdCountsCallsWitness ==
    /\ last = Call("Create", Nil)
    /\ idCnt = 4
    /\ DOMAIN users = {1, 4}
    /\ \E v \in DOMAIN caller : heap[caller[v]].Id = 4

(***************************************************************************)
(* The three maps of the in-memory repository.                             *)
(***************************************************************************)
\* C34: while the repository is open the email index and the username index
\* have exactly one entry per stored user, under the user's current email
\* and username, and the entry is a record with the id and the fields of the
\* record stored under that id.
MapsAgree ==
    ~closed =>
        /\ DOMAIN emails = {Stored(id).Email : id \in DOMAIN users}
        /\ DOMAIN usernames = {Stored(id).Username : id \in DOMAIN users}
        /\ Cardinality(DOMAIN emails) = Cardinality(DOMAIN users)
        /\ Cardinality(DOMAIN usernames) = Cardinality(DOMAIN users)
        /\ \A id \in DOMAIN users :
               /\ Stored(id).Id = id
               /\ At(emails[Stored(id).Email]) = Stored(id)
               /\ At(usernames[Stored(id).Username]) = Stored(id)

(***************************************************************************)
(* The record of the caller after a CreateUser that failed.                *)
(***************************************************************************)
\* C35: a CreateUser that returns an error, of the validation or of the
\* repository, leaves the record the caller passed as it was, the password
\* still the plaintext.
FailedCreateUserKeepsRecord ==
    [][\A v \in DOMAIN caller :
          /\ last'.op = "CreateUser"
          /\ last'.err # Nil
          /\ CreateUser(v)
          => heap'[caller[v]] = heap[caller[v]]]_vars

(***************************************************************************)
(* The earlier revision of the in-memory repository (part_001): it has no  *)
(* Close, and its Update moves each index as soon as the key has passed    *)
(* its own check.  The record passed to Update is one the caller lets go.  *)
(***************************************************************************)
UpdateEarlier(u) ==
    LET old == At(users[u.Id])
        moved == IF old.Email # u.Email
                   THEN Put(Del(emails, old.Email), u.Email, Own(u))
                 ELSE emails
    IN  /\ UNCHANGED <<heap, idCnt, closed, caller, origin, edits>>
        /\ IF u.Id \notin DOMAIN users
             THEN /\ last' = Call("Update", ErrUserNotFound)
                  /\ UNCHANGED <<users, emails, usernames>>
           ELSE IF old.Email # u.Email /\ u.Email \in DOMAIN emails
             THEN /\ last' = Call("Update", ErrDuplicateEmail)
                  /\ UNCHANGED <<users, emails, usernames>>
           ELSE IF old.Username # u.Username /\ u.Username \in DOMAIN usernames
             THEN /\ last' = Call("Update", ErrDuplicateUsername)
                  /\ emails' = moved
                  /\ UNCHANGED <<users, usernames>>
           ELSE /\ last' = Call("Update", Nil)
                /\ emails' = moved
                /\ usernames' =
                       IF old.Username # u.Username
                         THEN Put(Del(usernames, old.Username), u.Username,
                                  Own(u))
                       ELSE usernames
                /\ users' = Put(users, u.Id, Own(u))

\* The records passed to Update: there is an email no Create has used.
EarlierArgs == {User(id, e, n, "p1") : id \in Ids, e \in Emails \cup {"e3"},
                                       n \in Usernames}

EarlierNext ==
    \/ /\ \E e \in Emails, n \in Usernames : NewUser(e, n, "p1")
       /\ UNCHANGED <<concVars, sqlVars, webVars>>
    \/ /\ \E v \in Vars : Drop(v)
       /\ UNCHANGED <<concVars, sqlVars, webVars>>
    \/ /\ \E v \in Vars : Create(v)
       /\ UNCHANGED <<concVars, sqlVars, webVars>>
    \/ /\ \E u \in EarlierArgs : UpdateEarlier(u)
       /\ UNCHANGED <<concVars, sqlVars, webVars>>
    \/ /\ \E id \in Ids : Delete(id)
       /\ UNCHANGED <<concVars, sqlVars, webVars>>

EarlierSpec == Init /\ [][EarlierNext]_vars

\* C33: an Update or a Delete of the in-memory repository that returns an
\* error leaves the stored records and the two indices as they were before
\* the call.
FailedWriteChangesNothing ==
    [][last'.op \in {"Update", "Delete"} /\ last'.err # Nil
          => UNCHANGED <<heap, users, emails, usernames>>]_vars

(***************************************************************************)
(* Handler.UpdateUser.  The form value id is a string: the empty string,   *)
(* which strconv.Atoi rejects, or the numeral of an id.  A request that    *)
(* passes every check answers 200.                                         *)
(***************************************************************************)
UpdateUser(c, id, e, n, pw) ==
    LET cur == CurrentUserRes(c)
        got == GetRes(id[1])
        status(err) == IF err = Nil THEN 200
                       ELSE IF err = ErrUserNotFound THEN 404
                       ELSE 500
    IN  /\ UNCHANGED values
        /\ IF cur.err # Nil
             THEN /\ resp' = Answer("UpdateUser", c, cur.err, 404)
                  /\ UNCHANGED repoVars
           ELSE IF id = <<>>
             THEN /\ resp' = Answer("UpdateUser", c, "strconv.ErrSyntax", 400)
                  /\ UNCHANGED repoVars
           ELSE IF got.err # Nil
             THEN /\ resp' = Answer("UpdateUser", c, got.err, status(got.err))
                  /\ last' = Call("Get", got.err)
                  /\ UNCHANGED <<heap, users, emails, usernames, idCnt,
                                 closed, caller, origin, edits>>
           ELSE IF cur.ret # got.u.Username
             THEN /\ resp' = Answer("UpdateUser", c, ErrUserNotFound, 404)
                  /\ last' = Call("Get", Nil)
                  /\ UNCHANGED <<heap, users, emails, usernames, idCnt,
                                 closed, caller, origin, edits>>
           ELSE \E salt \in Salts :
                    LET u == User(id[1], e, n, HashPassword(pw, salt))
                    IN  /\ Update(u)
                        /\ resp' = Answer("UpdateUser", c, UpdateErr(u),
                                          status(UpdateErr(u)))

\* The form values id of the requests.
FormIds == {<<>>} \cup {<<id>> : id \in Ids}

\* The requests of the clients; account follows the logins and logouts.
RequestNext ==
    \/ /\ \E c \in Clients, e \in AuthEmails, n \in AuthUsernames :
              RegisterUser(c, e, n, Rep(6, "a"))
       /\ UNCHANGED <<concVars, sqlVars, account>>
    \/ /\ \E c \in Clients, e \in AuthEmails,
             pw \in {Rep(6, "a"), Rep(6, "1")} :
              /\ UserLogin(c, e, pw)
              /\ account' = IF resp'.err = Nil
                              THEN [account EXCEPT
                                       ![c] = GetByEmailRes(e).u.Id]
                            ELSE account
       /\ UNCHANGED <<concVars, sqlVars>>
    \/ /\ \E c \in Clients :
              /\ UserLogout(c)
              /\ account' = IF resp'.err = Nil
                              THEN [account EXCEPT ![c] = 0]
                            ELSE account
       /\ UNCHANGED <<concVars, sqlVars>>
    \/ /\ \E c \in Clients, id \in FormIds, e \in FormEmails,
             n \in AuthUsernames : UpdateUser(c, id, e, n, Rep(6, "1"))
       /\ UNCHANGED <<concVars, sqlVars, account>>

RequestSpec == Init /\ [][RequestNext]_vars

\* C36: an UpdateUser request changes a record only when the session of
\* the client has authenticated, with UserLogin, as the account the record
\* belongs to.
OnlyOwnAccount ==
    [][resp'.op = "UpdateUser" =>
          \A id \in DOMAIN users :
              users'[id] # users[id] => account[resp'.client] = id]_vars

\* C37: every record in the repository has a well-formed email that is not
\* empty, a username of 3 to 25 letters and digits and a password that is
\* not empty.
StoredRecordsValid ==
    \A id \in DOMAIN users :
        /\ Stored(id).Email # <<>>
        /\ MatchString(Stored(id).Email)
        /\ Len(Stored(id).Username) \in 3..25
        /\ isAlphanumeric(Stored(id).Username)
        /\ Stored(id).Password # <<>>

(***************************************************************************)
(* mockRepo.Close beside the concurrent calls.  Close takes no mutex: its  *)
(* assignments of nil can come between any two statements of a call that   *)
(* holds s.mu.  They are taken in one step here.  An assignment to an      *)
(* entry of a nil map panics, and the program ends there.                  *)
(***************************************************************************)
\* The goroutine p stands before s.users[...] = ..., s.emails[...] = ... or
\* s.usernames[...] = ... of Create or Update and the maps are nil.
NilMapWrite(p) ==
    /\ closed
    /\ p \in DOMAIN calls
    /\ calls[p].op \in {"Create", "Update"}
    /\ calls[p].pc \in {"users", "emails", "usernames"}

CloseNext ==
    \/ /\ \A p \in Procs : ~NilMapWrite(p)
       /\ ConcNext
    \/ /\ ~closed
       /\ Close
       /\ UNCHANGED <<concVars, sqlVars, webVars>>

CloseSpec == Init /\ [][CloseNext]_vars

\* C38: Close does not take effect inside the critical section of another
\* call: no Create, Update or Delete that has passed its check stands before
\* a write to a map, or a delete from it, that Close has released.
CloseOutsideCalls ==
    \A p \in DOMAIN calls :
        closed /\ calls[p].op \in {"Create", "Update", "Delete"} =>
            calls[p].pc \notin {"id", "users", "delEmail", "emails",
                                "delUsername", "usernames"}

(***************************************************************************)
(* mysqlRepo.Create called by several goroutines, with Delete between the  *)
(* statements.  Each statement the driver sends is one step: the INSERT,   *)
(* which the unique keys of the table reject with error 1062, and the two  *)
(* SELECTs of checkDupes.  The records passed are new ones, their Id is 0. *)
(* row is the id of the row the INSERT of the call has stored, 0 for none. *)
(***************************************************************************)
\* go s.Create(&user.User{...})
MysqlInvoke(p, u) ==
    /\ p \notin DOMAIN calls
    /\ calls' = Put(calls, p, [op |-> "Create", pc |-> "insert", u |-> u,
                               id |-> 0, err |-> Nil, row |-> 0])
    /\ UNCHANGED <<mu, sqlVars>>

\* The INSERT as it would be on a table without the unique keys.
MysqlInsertNoKeys(p) ==
    /\ p \in DOMAIN calls
    /\ calls[p].pc = "insert"
    /\ autoInc < MaxId
    /\ autoInc' = autoInc + 1
    /\ rows' = Put(rows, autoInc', [calls[p].u EXCEPT !.Id = autoInc'])
    /\ calls' = [calls EXCEPT ![p].pc = "done", ![p].row = autoInc']
    /\ UNCHANGED <<mu, sqlLast>>

\* s.db.Exec("INSERT INTO users ..."): without an error Create returns nil,
\* with error 1062 it goes on to checkDupes.
MysqlInsert(p) ==
    /\ p \in DOMAIN calls
    /\ calls[p].pc = "insert"
    /\ autoInc < MaxId
    /\ autoInc' = autoInc + 1
    /\ IF DuplicateKey(calls[p].u, 0)
         THEN /\ calls' = [calls EXCEPT ![p].pc = "email"]
              /\ UNCHANGED rows
         ELSE /\ rows' = Put(rows, autoInc',
                             [calls[p].u EXCEPT !.Id = autoInc'])
              /\ calls' = [calls EXCEPT ![p].pc = "done", ![p].row = autoInc']
    /\ UNCHANGED <<mu, sqlLast>>

\* checkDupes: SELECT id FROM users WHERE email = ?; err keeps err1.
MysqlQueryEmail(p) ==
    /\ p \in DOMAIN calls
    /\ calls[p].pc = "email"
    /\ LET u == calls[p].u
           id == Scan(IdsByEmail(u.Email), 0)
       IN  calls' = IF id # 0 /\ id # u.Id
                      THEN [calls EXCEPT ![p].pc = "done",
                                         ![p].err = ErrDuplicateEmail]
                    ELSE [calls EXCEPT
                             ![p].pc = "username",
                             ![p].id = id,
                             ![p].err = IF IdsByEmail(u.Email) = {}
                                          THEN ErrNoRows ELSE Nil]
    /\ UNCHANGED <<mu, sqlVars>>

\* checkDupes: SELECT id FROM users WHERE username = ?, and what checkDupes
\* and with it Create returns.
MysqlQueryUsername(p) ==
    /\ p \in DOMAIN calls
    /\ calls[p].pc = "username"
    /\ LET u == calls[p].u
           id == Scan(IdsByUsername(u.Username), calls[p].id)
           err2 == IF IdsByUsername(u.Username) = {} THEN ErrNoRows ELSE Nil
       IN  calls' = [calls EXCEPT
                        ![p].pc = "done",
                        ![p].id = id,
                        ![p].err = IF id # 0 /\ id # u.Id
                                     THEN ErrDuplicateUsername
                                   ELSE IF calls[p].err = Nil THEN err2
                                   ELSE calls[p].err]
    /\ UNCHANGED <<mu, sqlVars>>

RaceNext ==
    \/ /\ \E p \in Procs, e \in Emails, n \in Usernames :
              MysqlInvoke(p, User(0, e, n, "p1"))
       /\ UNCHANGED <<repoVars, webVars>>
    \/ /\ \E p \in Procs : MysqlInsert(p)
       /\ UNCHANGED <<repoVars, webVars>>
    \/ /\ \E p \in Procs : MysqlQueryEmail(p)
       /\ UNCHANGED <<repoVars, webVars>>
    \/ /\ \E p \in Procs : MysqlQueryUsername(p)
       /\ UNCHANGED <<repoVars, webVars>>
    \/ /\ \E id \in Ids : MysqlDelete(id)
       /\ UNCHANGED <<repoVars, concVars, webVars>>

RaceSpec == Init /\ [][RaceNext]_vars

====
